---------------------------- MODULE Spec2Model ----------------------------
(***************************************************************************)
(* A model of the roguelike of src/src/main.rs: the entity arena with its  *)
(* optional Fighter / AI / Item / Equipment capabilities, the dungeon      *)
(* generator make_map, combat and the scroll effects, and the turn loop    *)
(* of Game::play_game.                                                     *)
(*                                                                         *)
(* Entity ids are the 0-based indices of game.objects, as in the source;   *)
(* the TLA+ sequence holding the arena is 1-based, so object id is         *)
(* objects[id + 1] (see Obj).  An Option<T> is a sequence of length 0      *)
(* (None) or 1 (Some(v)).  The handlers are operators from a Game record   *)
(* to a Game record; the actions at the end apply them to the variables.   *)
(***************************************************************************)
EXTENDS Integers, Sequences, FiniteSets, TLC

VARIABLES
    state,          \* Game.state: "Playing" or "Death"
    dungeon_level,  \* Game.dungeon_level
    map,            \* Game.map: [tile -> Tile]
    fov_recompute,  \* Game.fov_recompute
    messages,       \* Game.messages
    objects,        \* Game.objects
    player_id,      \* Game.player_id
    stairs_id,      \* Game.stairs_id
    inventory,      \* Game.inventory
    deaths,         \* history: the ids whose death callback has fired, in order
    confused,       \* history: per entity confused by cast_confuse, the AI it
                    \* had before and the AI turns it has taken since
    last,           \* history: what the last loop iteration or step did: the
                    \* key (op, index, dx, dy), the UseResult (res), whether
                    \* the monsters took their turn (turn), the attacks made,
                    \* the turns the monsters took (acted) and the number of
                    \* messages logged
    fov,            \* TcodState.fov_map: the tiles in the field of view
    pc,             \* where the program is: "make_map", "play" or "exit"
    rooms,          \* make_map's local `rooms`
    attempt,        \* make_map's loop counter over 0..MAX_ROOMS
    from_new,       \* TRUE while the running make_map was called by Game::new
    turns,          \* loop iterations of play_game so far (bounded by MaxTurns)
    savegame        \* the file "savegame": None, or the JSON text save_game wrote

gameVars == <<state, dungeon_level, map, fov_recompute, messages, objects,
              player_id, stairs_id, inventory, deaths, confused, last>>
vars == <<state, dungeon_level, map, fov_recompute, messages, objects,
          player_id, stairs_id, inventory, deaths, confused, last, fov, pc, rooms,
          attempt, from_new, turns, savegame>>

---------------------------------------------------------------------------
(* Bounds of the model.  The map and room sizes and the number of room     *)
(* attempts are the generator's parameters scaled down (the source has     *)
(* 80 x 43, 6..10 and 30) so that every layout can be enumerated.          *)
MAP_WIDTH == 9
MAP_HEIGHT == 6
ROOM_MAX_SIZE == 4
ROOM_MIN_SIZE == 3
MAX_ROOMS == 2
MaxTurns == 2
MaxLevel == 2

(* Program constants. *)
MSG_HEIGHT == 6
INVENTORY_CAP == 26
HEAL_AMOUNT == 40
LIGHTNING_DAMAGE == 40
LIGHTNING_RANGE == 5
CONFUSE_RANGE == 8
CONFUSE_NUM_TURNS == 10
FIREBALL_RADIUS == 3
FIREBALL_DAMAGE == 25
LEVEL_UP_BASE == 200
LEVEL_UP_FACTOR == 150
TORCH_RADIUS == 10

---------------------------------------------------------------------------
(* Option<T> *)
None == <<>>
Some(v) == <<v>>
IsSome(o) == o # <<>>
Unwrap(o) == o[1]

(* e evaluated once and handed to F as a value *)
Force(e, F(_)) == CHOOSE r \in {F(x) : x \in {e}} : TRUE

Max(a, b) == IF a >= b THEN a ELSE b
Min(a, b) == IF a <= b THEN a ELSE b

Tiles == (0 .. MAP_WIDTH - 1) \X (0 .. MAP_HEIGHT - 1)

(* Rect::new *)
Rect_new(x, y, w, h) == [x1 |-> x, y1 |-> y, x2 |-> x + w, y2 |-> y + h]

(* Rect::center; the coordinates are non-negative, so / truncates as \div *)
center(r) == <<(r.x1 + r.x2) \div 2, (r.y1 + r.y2) \div 2>>

(* Rect::intersect as it would be with strict comparisons *)
intersect_strict(r, other) ==
    /\ r.x1 < other.x2
    /\ r.x2 > other.x1
    /\ r.y1 < other.y2
    /\ r.y2 > other.y1

(* Rect::intersect *)
intersect(r, other) ==
    /\ r.x1 <= other.x2
    /\ r.x2 >= other.x1
    /\ r.y1 <= other.y2
    /\ r.y2 >= other.y1

(* Object::new *)
Object_new(x, y, char, name, blocks) ==
    [x |-> x, y |-> y, char |-> char, name |-> name, blocks |-> blocks,
     always_visible |-> FALSE, on_ground |-> TRUE, level |-> 0,
     fighter |-> None, ai |-> None, item |-> None, equipment |-> None]

(* game.objects[id] *)
Obj(g, id) == g.objects[id + 1]

Ids(g) == 0 .. Len(g.objects) - 1

SetObj(g, id, o) == [g EXCEPT !.objects[id + 1] = o]

(* Object::pos *)
pos(o) == <<o.x, o.y>>

(* the square of Object::distance / Object::distance_to: the source compares *)
(* the f32 square root, which is monotone on these small integers            *)
distance2(o, x, y) == (x - o.x) * (x - o.x) + (y - o.y) * (y - o.y)

(* the history of a step that has done nothing yet *)
Step(op, index) ==
    [op |-> op, index |-> index, res |-> "", turn |-> FALSE, attacks |-> <<>>,
     acted |-> <<>>, logged |-> 0, dx |-> 0, dy |-> 0]

(* Game::message as it would be without the removal of the first message *)
message_keeps_all(gg, new_msg) ==
    Force(gg, LAMBDA g :
    [g EXCEPT !.messages = Append(g.messages, new_msg),
              !.last.logged = @ + 1])

(* Game::message; g.last.logged counts the messages of the step *)
message(gg, new_msg) ==
    Force(gg, LAMBDA g :
    LET kept == IF Len(g.messages) = MSG_HEIGHT THEN Tail(g.messages)
                ELSE g.messages
    IN  [g EXCEPT !.messages = Append(kept, new_msg),
                  !.last.logged = @ + 1])

---------------------------------------------------------------------------
(* Equipment and stat aggregation *)

(* get_all_equipped as it would be without the test of is_equipped *)
get_all_equipped_carried(id, gg) ==
    Force(gg, LAMBDA g :
    IF id = g.player_id
    THEN LET eq(i) == Obj(g, g.inventory[i]).equipment
             keep == {i \in 1 .. Len(g.inventory) : IsSome(eq(i))}
         IN  [i \in keep |-> Unwrap(eq(i))]
    ELSE <<>>)

(* get_all_equipped *)
get_all_equipped(id, gg) ==
    Force(gg, LAMBDA g :
    IF id = g.player_id
    THEN LET eq(i) == Obj(g, g.inventory[i]).equipment
             keep == {i \in 1 .. Len(g.inventory) :
                        IsSome(eq(i)) /\ Unwrap(eq(i)).is_equipped}
         IN  [i \in keep |-> Unwrap(eq(i))]
    ELSE <<>>)

RECURSIVE SumOver(_, _, _)
SumOver(f, S, field) ==
    IF S = {} THEN 0
    ELSE LET i == CHOOSE j \in S : TRUE
         IN  f[i][field] + SumOver(f, S \ {i}, field)

Bonus(id, g, field) ==
    LET eqs == get_all_equipped(id, g) IN SumOver(eqs, DOMAIN eqs, field)

(* full_power *)
full_power(id, gg) ==
    Force(gg, LAMBDA g :
    LET f == Obj(g, id).fighter
        base_power == IF IsSome(f) THEN Unwrap(f).base_power ELSE 0
    IN  base_power + Bonus(id, g, "power_bonus"))

(* full_defense *)
full_defense(id, gg) ==
    Force(gg, LAMBDA g :
    LET f == Obj(g, id).fighter
        base_defense == IF IsSome(f) THEN Unwrap(f).base_defense ELSE 0
    IN  base_defense + Bonus(id, g, "defense_bonus"))

(* full_max_hp *)
full_max_hp(id, gg) ==
    Force(gg, LAMBDA g :
    LET f == Obj(g, id).fighter
        base_max_hp == IF IsSome(f) THEN Unwrap(f).base_max_hp ELSE 0
    IN  base_max_hp + Bonus(id, g, "max_hp_bonus"))

(* get_equipped_in_slot: the first inventory entry equipped in the slot *)
get_equipped_in_slot(slot, inv, objs) ==
    LET hit(i) == LET e == objs[inv[i] + 1].equipment
                  IN  IsSome(e) /\ Unwrap(e).is_equipped /\ Unwrap(e).slot = slot
        hits == {i \in 1 .. Len(inv) : hit(i)}
    IN  IF hits = {} THEN None
        ELSE Some(inv[CHOOSE i \in hits : \A j \in hits : i <= j])

(* dequip *)
dequip(id, gg) ==
    Force(gg, LAMBDA g :
    LET e == Obj(g, id).equipment IN
    IF IsSome(e) /\ Unwrap(e).is_equipped
    THEN message([g EXCEPT !.objects[id + 1].equipment =
                               Some([Unwrap(e) EXCEPT !.is_equipped = FALSE])],
                 "Dequipped")
    ELSE g)

(* equip as it would be without the dequip of the slot's holder *)
equip_keeps_old(id, gg) ==
    Force(gg, LAMBDA g :
    LET e == Obj(g, id).equipment IN
    IF IsSome(e)
    THEN message([g EXCEPT !.objects[id + 1].equipment =
                     Some([Unwrap(e) EXCEPT !.is_equipped = TRUE])],
                 "Equipped")
    ELSE g)

(* equip *)
equip(id, gg) ==
    Force(gg, LAMBDA g :
    LET e0 == Obj(g, id).equipment
        slot == IF IsSome(e0) THEN Unwrap(e0).slot ELSE ""
        old == get_equipped_in_slot(slot, g.inventory, g.objects)
    IN  Force(IF IsSome(old) THEN dequip(Unwrap(old), g) ELSE g,
              LAMBDA g1 :
                LET e == Obj(g1, id).equipment IN
                IF IsSome(e)
                THEN message([g1 EXCEPT !.objects[id + 1].equipment =
                                 Some([Unwrap(e) EXCEPT !.is_equipped = TRUE])],
                             "Equipped")
                ELSE g1))

(* toggle_equip as it would be if it equipped whatever the flag *)
toggle_equip_always_equips(id, gg) ==
    Force(gg, LAMBDA g : equip(id, g))

(* toggle_equip *)
toggle_equip(id, gg) ==
    Force(gg, LAMBDA g :
    LET e == Obj(g, id).equipment IN
    IF IsSome(e) /\ Unwrap(e).is_equipped THEN dequip(id, g) ELSE equip(id, g))

(* pick_item_up as it would be with `>` for `>=` in the test of the cap *)
pick_item_up_over_cap(id, gg) ==
    Force(gg, LAMBDA g :
    IF Len(g.inventory) > INVENTORY_CAP
    THEN message(g, "Your inventory is full")
    ELSE Force([message([g EXCEPT !.objects[id + 1].on_ground = FALSE],
                        "You picked up")
                  EXCEPT !.inventory = Append(@, id)],
               LAMBDA g3 :
                 LET e == Obj(g3, id).equipment IN
                 IF IsSome(e) /\ ~IsSome(get_equipped_in_slot(Unwrap(e).slot,
                                              g3.inventory, g3.objects))
                 THEN equip(id, g3)
                 ELSE g3))

(* pick_item_up *)
pick_item_up(id, gg) ==
    Force(gg, LAMBDA g :
    IF Len(g.inventory) >= INVENTORY_CAP
    THEN message(g, "Your inventory is full")
    ELSE Force([message([g EXCEPT !.objects[id + 1].on_ground = FALSE],
                        "You picked up")
                  EXCEPT !.inventory = Append(@, id)],
               LAMBDA g3 :
                 LET e == Obj(g3, id).equipment IN
                 IF IsSome(e) /\ ~IsSome(get_equipped_in_slot(Unwrap(e).slot,
                                              g3.inventory, g3.objects))
                 THEN equip(id, g3)
                 ELSE g3))

(* Vec::remove(index), index 0-based *)
Vec_remove(v, index) ==
    [i \in 1 .. Len(v) - 1 |-> IF i <= index THEN v[i] ELSE v[i + 1]]

(* Vec::swap_remove(index), index 0-based: the last element takes the place *)
Vec_swap_remove(v, index) ==
    [i \in 1 .. Len(v) - 1 |-> IF i = index + 1 THEN v[Len(v)] ELSE v[i]]

(* drop_item as it would be without the dequip *)
drop_item_keeps_equipped(id, inventory_index, gg) ==
    Force(gg, LAMBDA g :
    LET p == Obj(g, g.player_id)
    IN  message([g EXCEPT
                    !.inventory = Vec_swap_remove(@, inventory_index),
                    !.objects[id + 1].x = p.x,
                    !.objects[id + 1].y = p.y,
                    !.objects[id + 1].on_ground = TRUE],
                "You dropped"))

(* drop_item *)
drop_item(id, inventory_index, gg) ==
    Force(gg, LAMBDA g :
    Force(IF IsSome(Obj(g, id).equipment) THEN dequip(id, g) ELSE g,
          LAMBDA g1 :
            LET p == Obj(g1, g1.player_id)
            IN  message([g1 EXCEPT
                            !.inventory = Vec_swap_remove(@, inventory_index),
                            !.objects[id + 1].x = p.x,
                            !.objects[id + 1].y = p.y,
                            !.objects[id + 1].on_ground = TRUE],
                        "You dropped")))

---------------------------------------------------------------------------
(* Combat *)

RemainsOf(name) ==
    CASE name = "orc" -> "remains of orc"
      [] name = "troll" -> "remains of troll"
      [] OTHER -> "remains"

(* player_death as it would be if it stripped the corpse as monster_death *)
(* does                                                                    *)
player_death_strips(id, gg) ==
    Force(gg, LAMBDA g :
    LET g1 == message(g, "You died!")
    IN  [g1 EXCEPT !.state = "Death", !.objects[id + 1].char = "%",
                   !.objects[id + 1].fighter = None])

(* player_death *)
player_death(id, gg) ==
    Force(gg, LAMBDA g :
    LET g1 == message(g, "You died!")
    IN  [g1 EXCEPT !.state = "Death", !.objects[id + 1].char = "%"])

(* monster_death as it would be if the corpse kept its Fighter *)
monster_death_keeps_fighter(id, gg) ==
    Force(gg, LAMBDA g :
    LET g0 == message(g, "is dead!")
        g1 == [g0 EXCEPT !.confused = [i \in DOMAIN @ \ {id} |-> @[i]]]
        monster == Obj(g1, id)
    IN  SetObj(g1, id, [monster EXCEPT !.char = "%",
                                       !.blocks = FALSE,
                                       !.ai = None,
                                       !.name = RemainsOf(monster.name)]))

(* monster_death as it would be if the corpse went on blocking its tile *)
monster_death_keeps_blocking(id, gg) ==
    Force(gg, LAMBDA g :
    LET g0 == message(g, "is dead!")
        g1 == [g0 EXCEPT !.confused = [i \in DOMAIN @ \ {id} |-> @[i]]]
        monster == Obj(g1, id)
    IN  SetObj(g1, id, [monster EXCEPT !.char = "%",
                                       !.fighter = None,
                                       !.ai = None,
                                       !.name = RemainsOf(monster.name)]))

(* monster_death *)
monster_death(id, gg) ==
    Force(gg, LAMBDA g :
    LET g0 == message(g, "is dead!")
        g1 == [g0 EXCEPT !.confused = [i \in DOMAIN @ \ {id} |-> @[i]]]
        monster == Obj(g1, id)
    IN  SetObj(g1, id, [monster EXCEPT !.char = "%",
                                       !.blocks = FALSE,
                                       !.fighter = None,
                                       !.ai = None,
                                       !.name = RemainsOf(monster.name)]))

(* DeathCallback::callback; g.deaths records that it fired for id *)
callback(death, id, gg) ==
    Force(gg, LAMBDA g :
    LET g1 == [g EXCEPT !.deaths = Append(@, id)]
    IN  IF death = "Monster" THEN monster_death(id, g1) ELSE player_death(id, g1))

(* take_damage as it would be without the test `damage > 0` *)
take_damage_unguarded(id, damage, gg) ==
    Force(gg, LAMBDA g :
    LET f0 == Obj(g, id).fighter IN
    IF ~IsSome(f0) THEN g
    ELSE LET fighter == Unwrap(f0)
             hp == fighter.hp - damage
             g1 == [g EXCEPT !.objects[id + 1].fighter =
                                 Some([fighter EXCEPT !.hp = hp])]
         IN  IF hp <= 0 /\ IsSome(fighter.death)
             THEN LET pf == Unwrap(Obj(g1, g1.player_id).fighter)
                      g2 == IF id # g1.player_id
                            THEN [g1 EXCEPT !.objects[g1.player_id + 1].fighter =
                                      Some([pf EXCEPT !.xp = @ + fighter.xp])]
                            ELSE g1
                  IN  callback(Unwrap(fighter.death), id, g2)
             ELSE g1)

(* take_damage as it would be without the test `id != game.player_id` *)
take_damage_awards_any(id, damage, gg) ==
    Force(gg, LAMBDA g :
    LET f0 == Obj(g, id).fighter IN
    IF ~IsSome(f0) THEN g
    ELSE LET fighter == Unwrap(f0)
             hp == IF damage > 0 THEN fighter.hp - damage ELSE fighter.hp
             g1 == [g EXCEPT !.objects[id + 1].fighter =
                                 Some([fighter EXCEPT !.hp = hp])]
         IN  IF hp <= 0 /\ IsSome(fighter.death)
             THEN LET pf == Unwrap(Obj(g1, g1.player_id).fighter)
                      g2 == [g1 EXCEPT !.objects[g1.player_id + 1].fighter =
                                      Some([pf EXCEPT !.xp = @ + fighter.xp])]
                  IN  callback(Unwrap(fighter.death), id, g2)
             ELSE g1)

(* take_damage *)
take_damage(id, damage, gg) ==
    Force(gg, LAMBDA g :
    LET f0 == Obj(g, id).fighter IN
    IF ~IsSome(f0) THEN g
    ELSE LET fighter == Unwrap(f0)
             hp == IF damage > 0 THEN fighter.hp - damage ELSE fighter.hp
             g1 == [g EXCEPT !.objects[id + 1].fighter =
                                 Some([fighter EXCEPT !.hp = hp])]
         IN  IF hp <= 0 /\ IsSome(fighter.death)
             THEN LET pf == Unwrap(Obj(g1, g1.player_id).fighter)
                      g2 == IF id # g1.player_id
                            THEN [g1 EXCEPT !.objects[g1.player_id + 1].fighter =
                                      Some([pf EXCEPT !.xp = @ + fighter.xp])]
                            ELSE g1
                  IN  callback(Unwrap(fighter.death), id, g2)
             ELSE g1)

(* attack *)
attack(attacker_id, target_id, gg) ==
    Force(gg, LAMBDA g :
    Force(full_power(attacker_id, g) - full_defense(target_id, g),
          LAMBDA damage :
            IF damage > 0
            THEN take_damage(target_id, damage, message(g, "attacks for hit points"))
            ELSE message(g, "attacks but it has no effect!")))

(* attack, and g.last.attacks records what it did: the power and the     *)
(* defense it met, the target's hp before, its hp after (None once the     *)
(* target has no Fighter) and the message it logged                        *)
attack_recorded(attacker_id, target_id, gg) ==
    Force(gg, LAMBDA g :
    Force(attack(attacker_id, target_id, g),
          LAMBDA g1 :
            LET f == Obj(g, target_id).fighter
                f1 == Obj(g1, target_id).fighter
            IN  [g1 EXCEPT !.last.attacks = Append(@,
                    [attacker |-> attacker_id, target |-> target_id,
                     power |-> full_power(attacker_id, g),
                     defense |-> full_defense(target_id, g),
                     before |-> IF IsSome(f) THEN Some(Unwrap(f).hp) ELSE None,
                     after |-> IF IsSome(f1) THEN Some(Unwrap(f1).hp) ELSE None,
                     said |-> IF Len(g1.messages) > Len(g.messages)
                                 \/ Len(g.messages) = MSG_HEIGHT
                              THEN Some(g1.messages[Len(g1.messages)])
                              ELSE None])]))

---------------------------------------------------------------------------
(* Movement *)

(* is_blocked; the tile lookup map[x][y] is only defined inside the grid *)
is_blocked(x, y, mp, objs) ==
    \/ mp[<<x, y>>].blocked
    \/ \E i \in 1 .. Len(objs) : objs[i].blocks /\ pos(objs[i]) = <<x, y>>

(* move_by *)
move_by(id, dx, dy, gg) ==
    Force(gg, LAMBDA g :
    LET o == Obj(g, id) IN
    IF ~is_blocked(o.x + dx, o.y + dy, g.map, g.objects)
    THEN [g EXCEPT !.objects[id + 1].x = o.x + dx, !.objects[id + 1].y = o.y + dy]
    ELSE g)

(* (d as f32 / distance).round() as i32 with distance = sqrt(d^2 + e^2) > 0: *)
(* |d| / distance >= 1/2 exactly when 4 d^2 >= d^2 + e^2                    *)
RoundedStep(d, e) ==
    IF 4 * d * d >= d * d + e * e
    THEN (IF d > 0 THEN 1 ELSE IF d < 0 THEN -1 ELSE 0)
    ELSE 0

(* move_towards *)
move_towards(id, target_x, target_y, gg) ==
    Force(gg, LAMBDA g :
    LET o == Obj(g, id)
        dx == target_x - o.x
        dy == target_y - o.y
    IN  move_by(id, RoundedStep(dx, dy), RoundedStep(dy, dx), g))

---------------------------------------------------------------------------
(* The field of view computed by tcod (an external oracle): fv is the      *)
(* player position of the last compute_fov and the radius it reached;      *)
(* radius -1 is the map before any computation.                            *)
is_in_fov(fv, x, y) ==
    /\ fv.r >= 0
    /\ (x - fv.x) * (x - fv.x) + (y - fv.y) * (y - fv.y) <= fv.r * fv.r

---------------------------------------------------------------------------
(* Monster AI.  A turn returns the AI as the turn left it (ai), the value  *)
(* take_turn returns (ret) and the game.                                   *)

BasicAI(id) == [monster_id |-> id, old_ai |-> None,
                ai_type |-> [kind |-> "Basic", num_turns |-> 0]]

(* monster_basic_ai as it would be if it struck without looking at the    *)
(* player's hp                                                             *)
monster_basic_ai_relentless(ai, gg, fv) ==
    Force(gg, LAMBDA g :
    LET monster == Obj(g, ai.monster_id)
        player == Obj(g, g.player_id)
        g1 == IF is_in_fov(fv, monster.x, monster.y)
              THEN IF distance2(monster, player.x, player.y) >= 4
                   THEN move_towards(ai.monster_id, player.x, player.y, g)
                   ELSE attack_recorded(ai.monster_id, g.player_id, g)
              ELSE g
    IN  [ai |-> ai, ret |-> None, g |-> g1])

(* MonsterAI::monster_basic_ai *)
monster_basic_ai(ai, gg, fv) ==
    Force(gg, LAMBDA g :
    LET monster == Obj(g, ai.monster_id)
        player == Obj(g, g.player_id)
        g1 == IF is_in_fov(fv, monster.x, monster.y)
              THEN IF distance2(monster, player.x, player.y) >= 4
                   THEN move_towards(ai.monster_id, player.x, player.y, g)
                   ELSE IF IsSome(player.fighter) /\ Unwrap(player.fighter).hp > 0
                        THEN attack_recorded(ai.monster_id, g.player_id, g)
                        ELSE g
              ELSE g
    IN  [ai |-> ai, ret |-> None, g |-> g1])

(* monster_confused_ai as it would be if the last confused turn restored *)
(* the previous AI                                                         *)
monster_confused_ai_early(ai, gg, r) ==
    Force(gg, LAMBDA g :
    LET num_turns == ai.ai_type.num_turns IN
    IF num_turns > 1
    THEN [ai |-> [ai EXCEPT !.ai_type.num_turns = num_turns - 1],
          ret |-> None,
          g |-> move_by(ai.monster_id, r[1], r[2], g)]
    ELSE [ai |-> [ai EXCEPT !.old_ai = None],
          ret |-> ai.old_ai,
          g |-> message(move_by(ai.monster_id, r[1], r[2], g),
                        "is no longer confused!")])

(* monster_confused_ai as it would be if the turn entered with num_turns = 0 *)
(* returned no AI to restore                                                 *)
monster_confused_ai_stays(ai, gg, r) ==
    Force(gg, LAMBDA g :
    LET num_turns == ai.ai_type.num_turns IN
    IF num_turns > 0
    THEN [ai |-> [ai EXCEPT !.ai_type.num_turns = num_turns - 1],
          ret |-> None,
          g |-> move_by(ai.monster_id, r[1], r[2], g)]
    ELSE [ai |-> ai,
          ret |-> None,
          g |-> message(g, "is no longer confused!")])

(* MonsterAI::monster_confused_ai; r is the pair drawn from the rng *)
monster_confused_ai(ai, gg, r) ==
    Force(gg, LAMBDA g :
    LET num_turns == ai.ai_type.num_turns IN
    IF num_turns > 0
    THEN [ai |-> [ai EXCEPT !.ai_type.num_turns = num_turns - 1],
          ret |-> None,
          g |-> move_by(ai.monster_id, r[1], r[2], g)]
    ELSE [ai |-> [ai EXCEPT !.old_ai = None],
          ret |-> ai.old_ai,
          g |-> message(g, "is no longer confused!")])

(* MonsterAI::take_turn *)
take_turn(ai, g, fv, r) ==
    IF ai.ai_type.kind = "Basic"
    THEN monster_basic_ai(ai, g, fv)
    ELSE monster_confused_ai(ai, g, r)

(* the turn of id as the history keeps it: the AI it entered the turn     *)
(* with, where it stood, the player's hp, the tiles held by a blocking     *)
(* entity, and the messages and attacks the turn made (g before, g1 after) *)
Turn(id, g, g1) ==
    LET n == g1.last.logged - g.last.logged
        player == Obj(g, g.player_id)
    IN  [id |-> id,
         ai |-> Unwrap(Obj(g, id).ai),
         at |-> pos(Obj(g, id)),
         php |-> IF IsSome(player.fighter) THEN Some(Unwrap(player.fighter).hp)
                 ELSE None,
         blockers |-> {pos(Obj(g, o)) : o \in {i \in Ids(g) : Obj(g, i).blocks}},
         said |-> SubSeq(g1.messages, Len(g1.messages) - n + 1, Len(g1.messages)),
         hits |-> Len(g1.last.attacks) - Len(g.last.attacks)]

(* One step of the loop over the ids in Game::play_game; g.last.acted     *)
(* records the turn                                                        *)
ai_step(id, gg, fv, r) ==
    Force(gg, LAMBDA g :
    LET ai == Obj(g, id).ai IN
    IF IsSome(ai)
    THEN Force(take_turn(Unwrap(ai), [g EXCEPT !.objects[id + 1].ai = None],
                         fv, r),
               LAMBDA t :
                 [t.g EXCEPT !.objects[id + 1].ai =
                                 IF IsSome(t.ret) THEN t.ret ELSE Some(t.ai),
                             !.confused =
                                 [i \in DOMAIN t.g.confused |->
                                    IF i = id
                                    THEN [prev |-> t.g.confused[i].prev,
                                          passes |-> t.g.confused[i].passes + 1]
                                    ELSE t.g.confused[i]],
                             !.last.acted = Append(@, Turn(id, g, t.g))])
    ELSE g)

(* the loop over the ids as it would be run from the last id down *)
RECURSIVE ai_pass_descending(_, _, _, _, _)
ai_pass_descending(id, n, gg, fv, rnd) ==
    Force(gg, LAMBDA g :
    IF id >= n THEN g
    ELSE ai_step(id, ai_pass_descending(id + 1, n, g, fv, rnd), fv, rnd[id]))

(* for id in 0..self.objects.len(): rnd[id] is what the rng gives id *)
RECURSIVE ai_pass(_, _, _, _, _)
ai_pass(id, n, gg, fv, rnd) ==
    Force(gg, LAMBDA g :
    IF id >= n THEN g
    ELSE ai_pass(id + 1, n, ai_step(id, g, fv, rnd[id]), fv, rnd))

---------------------------------------------------------------------------
(* Spells.  Each returns the UseResult (res) and the game.                 *)

(* Fighter::heal as it would be without the cap *)
heal_uncapped(fighter, amount) == [fighter EXCEPT !.hp = @ + amount]

(* Fighter::heal *)
heal(fighter, amount) ==
    LET hp == fighter.hp + amount
    IN  [fighter EXCEPT !.hp = IF hp > fighter.base_max_hp
                               THEN fighter.base_max_hp ELSE hp]

(* cast_heal *)
cast_heal(gg) ==
    Force(gg, LAMBDA g :
    LET max_hp == full_max_hp(g.player_id, g)
        f == Obj(g, g.player_id).fighter
    IN  IF IsSome(f)
        THEN IF Unwrap(f).hp = max_hp
             THEN [res |-> "Cancelled",
                   g |-> message(g, "You are already at full health.")]
             ELSE [res |-> "Used",
                   g |-> [message(g, "Your wounds start to feel better!")
                            EXCEPT !.objects[g.player_id + 1].fighter =
                                       Some(heal(Unwrap(f), HEAL_AMOUNT))]]
        ELSE [res |-> "Cancelled", g |-> g])

(* closest_monster: the first id at the least distance below max_range + 1 *)
closest_monster(max_range, gg, fv) ==
    Force(gg, LAMBDA g :
    LET player == Obj(g, g.player_id)
        d2(id) == distance2(player, Obj(g, id).x, Obj(g, id).y)
        cands == {id \in Ids(g) :
                    /\ id # g.player_id
                    /\ IsSome(Obj(g, id).fighter)
                    /\ is_in_fov(fv, Obj(g, id).x, Obj(g, id).y)
                    /\ d2(id) < (max_range + 1) * (max_range + 1)}
    IN  IF cands = {} THEN None
        ELSE Some(CHOOSE id \in cands :
                    \A o \in cands : d2(id) < d2(o) \/ (d2(id) = d2(o) /\ id <= o)))

(* cast_lightning *)
cast_lightning(gg, fv) ==
    Force(gg, LAMBDA g :
    LET monster_id == closest_monster(LIGHTNING_RANGE, g, fv) IN
    IF IsSome(monster_id)
    THEN [res |-> "Used",
          g |-> take_damage(Unwrap(monster_id), LIGHTNING_DAMAGE,
                            message(g, "A lightning bolt strikes"))]
    ELSE [res |-> "Cancelled",
          g |-> message(g, "No enemy is close enough to strike.")])

(* for &id in &burned_objects, in ascending id order *)
RECURSIVE burn(_, _)
burn(burned, gg) ==
    Force(gg, LAMBDA g :
    IF burned = {} THEN g
    ELSE LET id == CHOOSE i \in burned : \A j \in burned : i <= j
         IN  burn(burned \ {id},
                  take_damage(id, FIREBALL_DAMAGE,
                              message(g, "gets burned"))))

(* cast_fireball as it would be if the player were left out of the burned *)
cast_fireball_spares_player(gg, tile) ==
    Force(gg, LAMBDA g :
    LET g1 == message(g, "Left-click a target tile for the fireball") IN
    IF ~IsSome(tile) THEN [res |-> "Cancelled", g |-> g1]
    ELSE LET x == Unwrap(tile)[1]
             y == Unwrap(tile)[2]
             g2 == message(g1, "The fireball explodes")
             burned_objects ==
                 {id \in Ids(g2) :
                    /\ distance2(Obj(g2, id), x, y) <= FIREBALL_RADIUS * FIREBALL_RADIUS
                    /\ IsSome(Obj(g2, id).fighter)
                    /\ id # g2.player_id}
         IN  [res |-> "Used", g |-> burn(burned_objects, g2)])

(* cast_fireball; tile is what target_tile returns: None or Some(<<x, y>>) *)
cast_fireball(gg, tile) ==
    Force(gg, LAMBDA g :
    LET g1 == message(g, "Left-click a target tile for the fireball") IN
    IF ~IsSome(tile) THEN [res |-> "Cancelled", g |-> g1]
    ELSE LET x == Unwrap(tile)[1]
             y == Unwrap(tile)[2]
             g2 == message(g1, "The fireball explodes")
             burned_objects ==
                 {id \in Ids(g2) :
                    /\ distance2(Obj(g2, id), x, y) <= FIREBALL_RADIUS * FIREBALL_RADIUS
                    /\ IsSome(Obj(g2, id).fighter)}
         IN  [res |-> "Used", g |-> burn(burned_objects, g2)])

(* cast_confuse; target is what target_monster returns: None or Some(id) *)
cast_confuse(gg, target) ==
    Force(gg, LAMBDA g :
    LET g1 == message(g, "Left-click an enemy to confuse it") IN
    IF ~IsSome(target) THEN [res |-> "Cancelled", g |-> g1]
    ELSE LET id == Unwrap(target)
             old_ai == Obj(g1, id).ai
             confuse_ai == [monster_id |-> id,
                            old_ai |-> old_ai,
                            ai_type |-> [kind |-> "Confused",
                                         num_turns |-> CONFUSE_NUM_TURNS]]
             g2 == [g1 EXCEPT !.objects[id + 1].ai = Some(confuse_ai),
                              !.confused =
                                  [i \in DOMAIN @ \cup {id} |->
                                     IF i = id
                                     THEN [prev |-> old_ai, passes |-> 0]
                                     ELSE @[i]]]
         IN  [res |-> "Used", g |-> message(g2, "The eyes look vacant")])

(* cast_nothing *)
cast_nothing(g) == [res |-> "Used", g |-> g]

(* target_tile with max_range None: the tiles a left click is accepted on *)
TargetTiles(g, fv) == {t \in Tiles : is_in_fov(fv, t[1], t[2])}

(* target_monster with max_range: the ids a left click can return, the     *)
(* first Fighter other than the player on an accepted tile                 *)
TargetMonsters(max_range, gg, fv) ==
    Force(gg, LAMBDA g :
    LET player == Obj(g, g.player_id)
        ok(id) == /\ id # g.player_id
                  /\ IsSome(Obj(g, id).fighter)
                  /\ is_in_fov(fv, Obj(g, id).x, Obj(g, id).y)
                  /\ distance2(player, Obj(g, id).x, Obj(g, id).y)
                        <= max_range * max_range
    IN  {id \in Ids(g) :
            ok(id) /\ \A o \in Ids(g) :
                         (ok(o) /\ pos(Obj(g, o)) = pos(Obj(g, id))) => id <= o})

(* Item::use_item; inp.tile and inp.monster are the targeting results *)
Item_use_item(item, g, fv, inp) ==
    CASE item = "Heal" -> cast_heal(g)
      [] item = "Lightning" -> cast_lightning(g, fv)
      [] item = "Fireball" -> cast_fireball(g, inp.tile)
      [] item = "Confuse" -> cast_confuse(g, inp.monster)
      [] OTHER -> cast_nothing(g)

(* use_item as it would be if the entry were destroyed whatever the result *)
use_item_destroys_always(id, inventory_index, gg, fv, inp) ==
    Force(gg, LAMBDA g :
    LET o == Obj(g, id) IN
    IF IsSome(o.item) /\ IsSome(o.equipment) THEN toggle_equip(id, g)
    ELSE IF IsSome(o.item)
    THEN Force(Item_use_item(Unwrap(o.item), g, fv, inp),
               LAMBDA u :
                 IF u.res = "Used"
                 THEN [u.g EXCEPT !.last.res = u.res,
                                  !.inventory = Vec_remove(@, inventory_index)]
                 ELSE message([u.g EXCEPT !.last.res = u.res,
                                          !.inventory = Vec_remove(@, inventory_index)],
                              "Cancelled"))
    ELSE message(g, "cannot be used."))

(* use_item; g.last.res records the UseResult *)
use_item(id, inventory_index, gg, fv, inp) ==
    Force(gg, LAMBDA g :
    LET o == Obj(g, id) IN
    IF IsSome(o.item) /\ IsSome(o.equipment) THEN toggle_equip(id, g)
    ELSE IF IsSome(o.item)
    THEN Force(Item_use_item(Unwrap(o.item), g, fv, inp),
               LAMBDA u :
                 IF u.res = "Used"
                 THEN [u.g EXCEPT !.last.res = u.res,
                                  !.inventory = Vec_remove(@, inventory_index)]
                 ELSE message([u.g EXCEPT !.last.res = u.res], "Cancelled"))
    ELSE message(g, "cannot be used."))

---------------------------------------------------------------------------
(* The player's turn *)

(* player_move_or_attack as it would be if it always tried to move *)
player_move_or_attack_walks(dx, dy, gg) ==
    Force(gg, LAMBDA g :
    [move_by(g.player_id, dx, dy, g) EXCEPT !.fov_recompute = TRUE])

(* player_move_or_attack *)
player_move_or_attack(dx, dy, gg) ==
    Force(gg, LAMBDA g :
    LET p == Obj(g, g.player_id)
        x == p.x + dx
        y == p.y + dy
        hits == {id \in Ids(g) :
                    IsSome(Obj(g, id).fighter) /\ pos(Obj(g, id)) = <<x, y>>}
    IN  IF hits # {}
        THEN attack_recorded(g.player_id,
                             CHOOSE id \in hits : \A o \in hits : id <= o, g)
        ELSE [move_by(g.player_id, dx, dy, g) EXCEPT !.fov_recompute = TRUE])

(* check_level_up as it would be if a level-up reset the xp to zero *)
check_level_up_resets_xp(gg, choice) ==
    Force(gg, LAMBDA g :
    LET player == Obj(g, g.player_id)
        level_up_xp == LEVEL_UP_BASE + player.level * LEVEL_UP_FACTOR
        fighter == Unwrap(player.fighter)
    IN  IF fighter.xp >= level_up_xp
        THEN LET f1 == [fighter EXCEPT !.xp = 0]
                 f2 == CASE choice = 0 -> [f1 EXCEPT !.base_max_hp = @ + 20,
                                                     !.hp = @ + 20]
                         [] choice = 1 -> [f1 EXCEPT !.base_power = @ + 1]
                         [] OTHER -> [f1 EXCEPT !.base_defense = @ + 1]
                 g1 == [g EXCEPT !.objects[g.player_id + 1].level = @ + 1]
                 g2 == message(g1, "Your battle skills grow stronger!")
             IN  [g2 EXCEPT !.objects[g.player_id + 1].fighter = Some(f2)]
        ELSE g)

(* check_level_up; choice is the valid answer the menu loop ends with *)
check_level_up(gg, choice) ==
    Force(gg, LAMBDA g :
    LET player == Obj(g, g.player_id)
        level_up_xp == LEVEL_UP_BASE + player.level * LEVEL_UP_FACTOR
        fighter == Unwrap(player.fighter)
    IN  IF fighter.xp >= level_up_xp
        THEN LET f1 == [fighter EXCEPT !.xp = @ - level_up_xp]
                 f2 == CASE choice = 0 -> [f1 EXCEPT !.base_max_hp = @ + 20,
                                                     !.hp = @ + 20]
                         [] choice = 1 -> [f1 EXCEPT !.base_power = @ + 1]
                         [] OTHER -> [f1 EXCEPT !.base_defense = @ + 1]
                 g1 == [g EXCEPT !.objects[g.player_id + 1].level = @ + 1]
                 g2 == message(g1, "Your battle skills grow stronger!")
             IN  [g2 EXCEPT !.objects[g.player_id + 1].fighter = Some(f2)]
        ELSE g)

(* the loop around the level-up menu in check_level_up: answers are what   *)
(* menu returns prompt after prompt, None or Some(index of an option), and *)
(* the loop ends at the first Some(0), Some(1) or Some(2)                  *)
RECURSIVE level_up_menu(_, _)
level_up_menu(fighter, answers) ==
    LET choice == Head(answers) IN
    CASE choice = Some(0) -> [fighter EXCEPT !.base_max_hp = @ + 20,
                                             !.hp = @ + 20]
      [] choice = Some(1) -> [fighter EXCEPT !.base_power = @ + 1]
      [] choice = Some(2) -> [fighter EXCEPT !.base_defense = @ + 1]
      [] OTHER -> level_up_menu(fighter, Tail(answers))

LevelUpDue(g) ==
    LET player == Obj(g, g.player_id)
    IN  Unwrap(player.fighter).xp >= LEVEL_UP_BASE + player.level * LEVEL_UP_FACTOR

(* render_all, the part that writes state: the lazy compute_fov from the   *)
(* player's position; r is the radius the oracle reaches                   *)
render_fov(g, fv, r) ==
    IF g.fov_recompute
    THEN [x |-> Obj(g, g.player_id).x, y |-> Obj(g, g.player_id).y, r |-> r]
    ELSE fv

render_all(g) == [g EXCEPT !.fov_recompute = FALSE]

---------------------------------------------------------------------------
(* The dungeon generator *)

Tile(blocked) == [blocked |-> blocked, block_sight |-> blocked]

(* create_room as it would be if it dug the whole rectangle, walls too *)
create_room_digs_walls(room, mp) ==
    [t \in DOMAIN mp |->
        IF /\ room.x1 <= t[1] /\ t[1] <= room.x2
           /\ room.y1 <= t[2] /\ t[2] <= room.y2
        THEN Tile(FALSE) ELSE mp[t]]

(* create_room *)
create_room(room, mp) ==
    [t \in DOMAIN mp |->
        IF /\ room.x1 + 1 <= t[1] /\ t[1] <= room.x2 - 1
           /\ room.y1 + 1 <= t[2] /\ t[2] <= room.y2 - 1
        THEN Tile(FALSE) ELSE mp[t]]

(* create_h_tunnel as it would be over x1 .. x2 without min and max *)
create_h_tunnel_no_min_max(x1, x2, y, mp) ==
    [t \in DOMAIN mp |->
        IF x1 <= t[1] /\ t[1] <= x2 /\ t[2] = y
        THEN Tile(FALSE) ELSE mp[t]]

(* create_h_tunnel *)
create_h_tunnel(x1, x2, y, mp) ==
    [t \in DOMAIN mp |->
        IF Min(x1, x2) <= t[1] /\ t[1] <= Max(x1, x2) /\ t[2] = y
        THEN Tile(FALSE) ELSE mp[t]]

(* create_v_tunnel *)
create_v_tunnel(y1, y2, x, mp) ==
    [t \in DOMAIN mp |->
        IF Min(y1, y2) <= t[2] /\ t[2] <= Max(y1, y2) /\ t[1] = x
        THEN Tile(FALSE) ELSE mp[t]]

(* from_dungeon_level: the value of the last entry unlocked at level, or 0 *)
from_dungeon_level(table, level) ==
    LET ok == {i \in 1 .. Len(table) : level >= table[i][2]}
    IN  IF ok = {} THEN 0
        ELSE table[CHOOSE i \in ok : \A j \in ok : j <= i][1]

max_monsters(level) == from_dungeon_level(<<<<2, 1>>, <<3, 4>>, <<5, 6>>>>, level)
troll_chance(level) == from_dungeon_level(<<<<15, 3>>, <<30, 5>>, <<60, 7>>>>, level)
max_items(level) == from_dungeon_level(<<<<1, 1>>, <<2, 4>>>>, level)

(* the monster kinds of positive weight in monster_chances *)
MonsterTypes(level) ==
    {"Orc"} \cup (IF troll_chance(level) > 0 THEN {"Troll"} ELSE {})

(* the item kinds of positive weight in item_chances *)
ItemTypes(level) ==
    {"Heal"}
    \cup (IF from_dungeon_level(<<<<25, 4>>>>, level) > 0 THEN {"Lighting"} ELSE {})
    \cup (IF from_dungeon_level(<<<<25, 6>>>>, level) > 0 THEN {"Fireball"} ELSE {})
    \cup (IF from_dungeon_level(<<<<10, 2>>>>, level) > 0 THEN {"Confuse"} ELSE {})
    \cup (IF from_dungeon_level(<<<<5, 4>>>>, level) > 0 THEN {"Sword"} ELSE {})
    \cup (IF from_dungeon_level(<<<<15, 8>>>>, level) > 0 THEN {"Shield"} ELSE {})

(* the monsters of place_objects as they would be if monster_id were read  *)
(* after the push                                                          *)
NewMonster_id_after_push(type, x, y, monster_id) ==
    IF type = "Orc"
    THEN [Object_new(x, y, "o", "orc", TRUE) EXCEPT
            !.fighter = Some([hp |-> 20, base_max_hp |-> 20, base_defense |-> 0,
                              base_power |-> 4, xp |-> 35,
                              death |-> Some("Monster")]),
            !.ai = Some(BasicAI(monster_id + 1))]
    ELSE [Object_new(x, y, "T", "troll", TRUE) EXCEPT
            !.fighter = Some([hp |-> 30, base_max_hp |-> 30, base_defense |-> 2,
                              base_power |-> 8, xp |-> 100,
                              death |-> Some("Monster")]),
            !.ai = Some(BasicAI(monster_id + 1))]

(* the monsters of place_objects *)
NewMonster(type, x, y, monster_id) ==
    IF type = "Orc"
    THEN [Object_new(x, y, "o", "orc", TRUE) EXCEPT
            !.fighter = Some([hp |-> 20, base_max_hp |-> 20, base_defense |-> 0,
                              base_power |-> 4, xp |-> 35,
                              death |-> Some("Monster")]),
            !.ai = Some(BasicAI(monster_id))]
    ELSE [Object_new(x, y, "T", "troll", TRUE) EXCEPT
            !.fighter = Some([hp |-> 30, base_max_hp |-> 30, base_defense |-> 2,
                              base_power |-> 8, xp |-> 100,
                              death |-> Some("Monster")]),
            !.ai = Some(BasicAI(monster_id))]

Equipment(slot, power_bonus, defense_bonus) ==
    [slot |-> slot, is_equipped |-> FALSE, power_bonus |-> power_bonus,
     defense_bonus |-> defense_bonus, max_hp_bonus |-> 0]

(* the items of place_objects *)
NewItem(type, x, y) ==
    CASE type = "Heal" ->
            [Object_new(x, y, "!", "healing potion", FALSE) EXCEPT
                !.item = Some("Heal")]
      [] type = "Lighting" ->
            [Object_new(x, y, "#", "scroll of lightning bolt", FALSE) EXCEPT
                !.item = Some("Lightning")]
      [] type = "Fireball" ->
            [Object_new(x, y, "#", "scroll of fireball", FALSE) EXCEPT
                !.item = Some("Fireball")]
      [] type = "Confuse" ->
            [Object_new(x, y, "#", "scroll of confusion", FALSE) EXCEPT
                !.item = Some("Confuse")]
      [] type = "Sword" ->
            [Object_new(x, y, "/", "sword", FALSE) EXCEPT
                !.equipment = Some(Equipment("right hand", 3, 0)),
                !.item = Some("None")]
      [] OTHER ->
            [Object_new(x, y, "[", "shield", FALSE) EXCEPT
                !.equipment = Some(Equipment("left hand", 0, 1)),
                !.item = Some("None")]

(* for _ in 0..num_monsters: picks[i] is the spot and the kind drawn *)
RECURSIVE place_monsters(_, _, _, _)
place_monsters(picks, i, mp, objs) ==
    IF i > Len(picks) THEN objs
    ELSE LET p == picks[i]
             objs1 == IF ~is_blocked(p.x, p.y, mp, objs)
                      THEN Append(objs, NewMonster(p.type, p.x, p.y, Len(objs)))
                      ELSE objs
         IN  place_monsters(picks, i + 1, mp, objs1)

(* for _ in 0..num_items *)
RECURSIVE place_items(_, _, _, _)
place_items(picks, i, mp, objs) ==
    IF i > Len(picks) THEN objs
    ELSE LET p == picks[i]
             objs1 == IF ~is_blocked(p.x, p.y, mp, objs)
                      THEN Append(objs, NewItem(p.type, p.x, p.y))
                      ELSE objs
         IN  place_items(picks, i + 1, mp, objs1)

(* place_objects *)
place_objects(mp, objs, mons, its) ==
    place_items(its, 1, mp, place_monsters(mons, 1, mp, objs))

(* the sequences of at most n elements of S *)
RECURSIVE SeqsUpTo(_, _)
SeqsUpTo(S, n) ==
    IF n <= 0 THEN {<<>>}
    ELSE LET shorter == SeqsUpTo(S, n - 1)
         IN  shorter \cup {Append(q, e) : q \in {r \in shorter : Len(r) = n - 1},
                                          e \in S}

(* what the rng can draw in place_objects: gen_range(a, b) is a .. b - 1 *)
Spots(room) == (room.x1 + 1 .. room.x2 - 2) \X (room.y1 + 1 .. room.y2 - 2)
Picks(room, types) == {[x |-> sp[1], y |-> sp[2], type |-> ty] :
                          sp \in Spots(room), ty \in types}
MonsterPicks(room, level) ==
    SeqsUpTo(Picks(room, MonsterTypes(level)), max_monsters(level) - 1)
ItemPicks(room, level) ==
    SeqsUpTo(Picks(room, ItemTypes(level)), max_items(level) - 1)

(* what the rng can draw for a room *)
RoomSizes == ROOM_MIN_SIZE .. ROOM_MAX_SIZE - 1
Candidates ==
    UNION {{Rect_new(x, y, w, h) : x \in 0 .. MAP_WIDTH - w - 2,
                                   y \in 0 .. MAP_HEIGHT - h - 2} :
           w \in RoomSizes, h \in RoomSizes}

(* make_map up to its loop as it would be if the inventory kept the ids   *)
(* of the old arena                                                        *)
make_map_begin_keeps_ids(gg) ==
    Force(gg, LAMBDA g :
    LET new_player_id == 0
        new_objects ==
            <<g.objects[new_player_id + 1]>>
            \o [i \in 1 .. Len(g.inventory) |-> Obj(g, g.inventory[i])]
    IN  [g EXCEPT !.map = [t \in Tiles |-> Tile(TRUE)],
                  !.confused = <<>>,
                  !.player_id = new_player_id,
                  !.objects = new_objects])

(* make_map up to its loop: the blocked map, and the arena rebuilt from    *)
(* the player and the inventory                                            *)
make_map_begin(gg) ==
    Force(gg, LAMBDA g :
    LET new_player_id == 0
        new_objects ==
            <<g.objects[new_player_id + 1]>>
            \o [i \in 1 .. Len(g.inventory) |-> Obj(g, g.inventory[i])]
        new_inventory == [i \in 1 .. Len(g.inventory) |-> i]
    IN  [g EXCEPT !.map = [t \in Tiles |-> Tile(TRUE)],
                  !.confused = <<>>,
                  !.player_id = new_player_id,
                  !.objects = new_objects,
                  !.inventory = new_inventory])

(* one iteration of `for _ in 0..MAX_ROOMS` with an accepted room *)
make_map_room(gg, rms, new_room, coin, mons, its) ==
    Force(gg, LAMBDA g :
    LET map1 == create_room(new_room, g.map)
        objs1 == place_objects(map1, g.objects, mons, its)
        new_x == center(new_room)[1]
        new_y == center(new_room)[2]
    IN  IF rms = <<>>
        THEN [g EXCEPT !.map = map1,
                       !.objects = [objs1 EXCEPT ![g.player_id + 1].x = new_x,
                                                 ![g.player_id + 1].y = new_y]]
        ELSE LET prev_x == center(rms[Len(rms)])[1]
                 prev_y == center(rms[Len(rms)])[2]
                 map2 == IF coin
                         THEN create_v_tunnel(prev_y, new_y, new_x,
                                  create_h_tunnel(prev_x, new_x, prev_y, map1))
                         ELSE create_h_tunnel(prev_x, new_x, new_y,
                                  create_v_tunnel(prev_y, new_y, prev_x, map1))
             IN  [g EXCEPT !.map = map2, !.objects = objs1])

(* make_map after its loop as it would be with the stairs in the first    *)
(* room                                                                    *)
make_map_end_first_room(gg, rms) ==
    Force(gg, LAMBDA g :
    LET c == center(rms[1])
        stairs == [Object_new(c[1], c[2], "<", "stairs", FALSE) EXCEPT
                      !.always_visible = TRUE]
    IN  [g EXCEPT !.stairs_id = Len(g.objects),
                  !.objects = Append(g.objects, stairs)])

(* make_map after its loop: the stairs *)
make_map_end(gg, rms) ==
    Force(gg, LAMBDA g :
    LET c == center(rms[Len(rms)])
        stairs == [Object_new(c[1], c[2], "<", "stairs", FALSE) EXCEPT
                      !.always_visible = TRUE]
    IN  [g EXCEPT !.stairs_id = Len(g.objects),
                  !.objects = Append(g.objects, stairs)])

(* Game::initialize_fov *)
initialize_fov(g) == [g EXCEPT !.fov_recompute = TRUE]

(* Game::new after make_map as it would be without the call of equip *)
Game_new_end_unequipped(gg) ==
    Force(gg, LAMBDA g :
    LET dagger == [Object_new(0, 0, "-", "dagger", FALSE) EXCEPT
                      !.equipment = Some(Equipment("right hand", 2, 0)),
                      !.item = Some("None")]
        dagger_id == Len(g.objects)
    IN  [message(initialize_fov(g), "Welcome stranger!")
           EXCEPT !.objects = Append(@, dagger),
                  !.inventory = Append(@, dagger_id)])

(* Game::new after make_map *)
Game_new_end(gg) ==
    Force(gg, LAMBDA g :
    LET dagger == [Object_new(0, 0, "-", "dagger", FALSE) EXCEPT
                      !.equipment = Some(Equipment("right hand", 2, 0)),
                      !.item = Some("None")]
        dagger_id == Len(g.objects)
    IN  equip(dagger_id,
              [message(initialize_fov(g), "Welcome stranger!")
                 EXCEPT !.objects = Append(@, dagger),
                        !.inventory = Append(@, dagger_id)]))

(* Game::next_level up to make_map's loop *)
next_level_begin(gg) ==
    Force(gg, LAMBDA g :
    Force(message(g, "You take a moment to rest"),
          LAMBDA g1 :
            LET max_hp == full_max_hp(g1.player_id, g1)
                f == Obj(g1, g1.player_id).fighter
                g2 == IF IsSome(f)
                      THEN [g1 EXCEPT !.objects[g1.player_id + 1].fighter =
                                          Some(heal(Unwrap(f), max_hp \div 2))]
                      ELSE g1
            IN  [make_map_begin([message(g2, "you descend deeper")
                                   EXCEPT !.dungeon_level = @ + 1])
                   EXCEPT !.deaths = <<>>]))

---------------------------------------------------------------------------
(* Persistence.  The file holds the JSON value the derived RustcEncodable  *)
(* writes: a struct is an object of its fields, a Vec or a tuple an array, *)
(* None is null and Some(v) is v, a variant without fields is its name and *)
(* a variant with fields is {"variant": name, "fields": [...]}.  The       *)
(* derived RustcDecodable reads it back field by field.  The colours and   *)
(* the explored flag of a tile, which only the rendering reads and writes, *)
(* are not part of this model's Game.                                      *)
JNull == [k |-> "null"]
JBool(b) == [k |-> "bool", v |-> b]
JNum(n) == [k |-> "num", v |-> n]
JStr(str) == [k |-> "str", v |-> str]
JArr(q) == [k |-> "arr", v |-> q]
JObj(r) == [k |-> "obj", v |-> r]

(* Option<T> *)
encode_Option(o, enc(_)) == IF IsSome(o) THEN enc(Unwrap(o)) ELSE JNull
decode_Option(j, dec(_)) == IF j.k = "null" THEN None ELSE Some(dec(j))

(* GameState, DeathCallback and Item: variants without fields *)
encode_unit(variant) == JStr(variant)
decode_unit(j) == j.v

(* MonsterAIType *)
encode_MonsterAIType(t) ==
    IF t.kind = "Basic" THEN JStr("Basic")
    ELSE JObj([variant |-> JStr("Confused"), fields |-> JArr(<<JNum(t.num_turns)>>)])

decode_MonsterAIType(j) ==
    IF j.k = "str" THEN [kind |-> j.v, num_turns |-> 0]
    ELSE [kind |-> j.v.variant.v, num_turns |-> j.v.fields.v[1].v]

(* MonsterAI; old_ai is an Option<Box<MonsterAI>> *)
RECURSIVE encode_MonsterAI(_)
encode_MonsterAI(ai) ==
    JObj([monster_id |-> JNum(ai.monster_id),
          old_ai |-> IF IsSome(ai.old_ai) THEN encode_MonsterAI(Unwrap(ai.old_ai))
                     ELSE JNull,
          ai_type |-> encode_MonsterAIType(ai.ai_type)])

(* the decoding of MonsterAI as it would be if it did not read old_ai *)
decode_MonsterAI_flat(j) ==
    [monster_id |-> j.v.monster_id.v,
     old_ai |-> None,
     ai_type |-> decode_MonsterAIType(j.v.ai_type)]

RECURSIVE decode_MonsterAI(_)
decode_MonsterAI(j) ==
    [monster_id |-> j.v.monster_id.v,
     old_ai |-> IF j.v.old_ai.k = "null" THEN None
                ELSE Some(decode_MonsterAI(j.v.old_ai)),
     ai_type |-> decode_MonsterAIType(j.v.ai_type)]

(* Fighter *)
encode_Fighter(f) ==
    JObj([base_max_hp |-> JNum(f.base_max_hp), hp |-> JNum(f.hp),
          base_defense |-> JNum(f.base_defense), base_power |-> JNum(f.base_power),
          xp |-> JNum(f.xp), death |-> encode_Option(f.death, encode_unit)])

decode_Fighter(j) ==
    [hp |-> j.v.hp.v, base_max_hp |-> j.v.base_max_hp.v,
     base_defense |-> j.v.base_defense.v, base_power |-> j.v.base_power.v,
     xp |-> j.v.xp.v, death |-> decode_Option(j.v.death, decode_unit)]

(* Equipment *)
encode_Equipment(e) ==
    JObj([slot |-> JStr(e.slot), is_equipped |-> JBool(e.is_equipped),
          power_bonus |-> JNum(e.power_bonus),
          defense_bonus |-> JNum(e.defense_bonus),
          max_hp_bonus |-> JNum(e.max_hp_bonus)])

decode_Equipment(j) ==
    [slot |-> j.v.slot.v, is_equipped |-> j.v.is_equipped.v,
     power_bonus |-> j.v.power_bonus.v, defense_bonus |-> j.v.defense_bonus.v,
     max_hp_bonus |-> j.v.max_hp_bonus.v]

(* Object *)
encode_Object(o) ==
    JObj([x |-> JNum(o.x), y |-> JNum(o.y), char |-> JStr(o.char),
          name |-> JStr(o.name), blocks |-> JBool(o.blocks),
          always_visible |-> JBool(o.always_visible),
          on_ground |-> JBool(o.on_ground), level |-> JNum(o.level),
          fighter |-> encode_Option(o.fighter, encode_Fighter),
          ai |-> encode_Option(o.ai, encode_MonsterAI),
          item |-> encode_Option(o.item, encode_unit),
          equipment |-> encode_Option(o.equipment, encode_Equipment)])

decode_Object(j) ==
    [x |-> j.v.x.v, y |-> j.v.y.v, char |-> j.v.char.v, name |-> j.v.name.v,
     blocks |-> j.v.blocks.v, always_visible |-> j.v.always_visible.v,
     on_ground |-> j.v.on_ground.v, level |-> j.v.level.v,
     fighter |-> decode_Option(j.v.fighter, decode_Fighter),
     ai |-> decode_Option(j.v.ai, decode_MonsterAI),
     item |-> decode_Option(j.v.item, decode_unit),
     equipment |-> decode_Option(j.v.equipment, decode_Equipment)]

(* Tile *)
encode_Tile(t) ==
    JObj([blocked |-> JBool(t.blocked), block_sight |-> JBool(t.block_sight)])

decode_Tile(j) == [blocked |-> j.v.blocked.v, block_sight |-> j.v.block_sight.v]

(* Map = Vec<Vec<Tile>>, map[x][y] *)
encode_Map(mp) ==
    JArr([x \in 1 .. MAP_WIDTH |->
            JArr([y \in 1 .. MAP_HEIGHT |-> encode_Tile(mp[<<x - 1, y - 1>>])])])

decode_Map(j) ==
    [t \in (0 .. Len(j.v) - 1) \X (0 .. Len(j.v[1].v) - 1) |->
        decode_Tile(j.v[t[1] + 1].v[t[2] + 1])]

(* Game *)
encode_Game(g) ==
    JObj([state |-> encode_unit(g.state),
          dungeon_level |-> JNum(g.dungeon_level),
          map |-> encode_Map(g.map),
          fov_recompute |-> JBool(g.fov_recompute),
          messages |-> JArr([i \in 1 .. Len(g.messages) |->
                               JArr(<<JStr(g.messages[i])>>)]),
          objects |-> JArr([i \in 1 .. Len(g.objects) |->
                              encode_Object(g.objects[i])]),
          player_id |-> JNum(g.player_id),
          stairs_id |-> JNum(g.stairs_id),
          inventory |-> JArr([i \in 1 .. Len(g.inventory) |->
                                JNum(g.inventory[i])])])

(* the decoded Game; deaths, confused and last are the history h goes on   *)
(* with                                                                    *)
decode_Game(j, h) ==
    [state |-> decode_unit(j.v.state),
     dungeon_level |-> j.v.dungeon_level.v,
     map |-> decode_Map(j.v.map),
     fov_recompute |-> j.v.fov_recompute.v,
     messages |-> [i \in 1 .. Len(j.v.messages.v) |-> j.v.messages.v[i].v[1].v],
     objects |-> [i \in 1 .. Len(j.v.objects.v) |-> decode_Object(j.v.objects.v[i])],
     player_id |-> j.v.player_id.v,
     stairs_id |-> j.v.stairs_id.v,
     inventory |-> [i \in 1 .. Len(j.v.inventory.v) |-> j.v.inventory.v[i].v],
     deaths |-> h.deaths, confused |-> h.confused, last |-> Step("load", 0)]

(* Game::save_game: what it writes to the file *)
save_game(g) == encode_Game(g)

(* Game::load_game of a file that decodes *)
load_game(json, h) == initialize_fov(decode_Game(json, h))

---------------------------------------------------------------------------
(* The turn loop *)

(* what the input source can yield *)
Key(k, dx, dy, index) == [k |-> k, dx |-> dx, dy |-> dy, index |-> index]
Dirs == {<<0, -1>>, <<0, 1>>, <<-1, 0>>, <<1, 0>>,
         <<-1, -1>>, <<1, -1>>, <<-1, 1>>, <<1, 1>>}
NoInput == [tile |-> None, monster |-> None]

(* the radius the field-of-view oracle reaches: the tiles next to the      *)
(* player only (everything else hidden), or the whole torch radius         *)
FovRadii == {1, TORCH_RADIUS}

(* the offsets as they would be if the range of gen_range included 1 *)
Offsets_symmetric == {-1, 0, 1} \X {-1, 0, 1}

(* rng.gen_range(-1, 1) twice *)
Offsets == {-1, 0} \X {-1, 0}

(* the test of '<' as it would be if it held on every tile *)
OnStairs_anywhere(g) == pos(Obj(g, g.player_id)) = pos(Obj(g, g.player_id))

OnStairs(g) == pos(Obj(g, g.stairs_id)) = pos(Obj(g, g.player_id))

(* the first item on the ground at the player's position, for 'g' *)
ItemHere(gg) ==
    Force(gg, LAMBDA g :
    LET p == Obj(g, g.player_id)
        here == {id \in Ids(g) : /\ pos(Obj(g, id)) = pos(p)
                                 /\ IsSome(Obj(g, id).item)
                                 /\ Obj(g, id).on_ground}
    IN  IF here = {} THEN None
        ELSE Some(CHOOSE id \in here : \A o \in here : id <= o))

(* handle_keys as it would be if a movement key that neither moved the     *)
(* player nor attacked did not take the turn                               *)
handle_keys_blocked_is_free(gg, fv, key, inp) ==
    Force(gg, LAMBDA g :
    LET didnt(h) == [action |-> "DidntTakeTurn", g |-> h, descended |-> FALSE]
        took(h) == [action |-> "None", g |-> h, descended |-> FALSE]
    IN
    IF key.k = "no event" THEN didnt(g)
    ELSE IF key.k = "escape"
    THEN [action |-> "Exit", g |-> g, descended |-> FALSE]
    ELSE IF g.state = "Playing"
    THEN CASE key.k = "move" ->
                Force(player_move_or_attack(key.dx, key.dy, g), LAMBDA h :
                      IF h.objects = g.objects THEN didnt(h) ELSE took(h))
           [] key.k = "wait" -> took(g)
           [] key.k = "g" ->
                didnt(IF IsSome(ItemHere(g))
                      THEN pick_item_up(Unwrap(ItemHere(g)), g) ELSE g)
           [] key.k = "i" ->
                didnt(IF key.index < Len(g.inventory)
                      THEN use_item(g.inventory[key.index + 1], key.index, g, fv, inp)
                      ELSE g)
           [] key.k = "d" ->
                didnt(IF key.index < Len(g.inventory)
                      THEN drop_item(g.inventory[key.index + 1], key.index, g)
                      ELSE g)
           [] key.k = "<" ->
                IF OnStairs(g)
                THEN [action |-> "DidntTakeTurn", g |-> next_level_begin(g),
                      descended |-> TRUE]
                ELSE didnt(g)
           [] OTHER -> didnt(g)
    ELSE didnt(g))

(* handle_keys: the PlayerAction, the game, and whether next_level ran     *)
handle_keys(gg, fv, key, inp) ==
    Force(gg, LAMBDA g :
    LET didnt(h) == [action |-> "DidntTakeTurn", g |-> h, descended |-> FALSE]
        took(h) == [action |-> "None", g |-> h, descended |-> FALSE]
    IN
    IF key.k = "no event" THEN didnt(g)
    ELSE IF key.k = "escape"
    THEN [action |-> "Exit", g |-> g, descended |-> FALSE]
    ELSE IF g.state = "Playing"
    THEN CASE key.k = "move" -> took(player_move_or_attack(key.dx, key.dy, g))
           [] key.k = "wait" -> took(g)
           [] key.k = "g" ->
                didnt(IF IsSome(ItemHere(g))
                      THEN pick_item_up(Unwrap(ItemHere(g)), g) ELSE g)
           [] key.k = "i" ->
                didnt(IF key.index < Len(g.inventory)
                      THEN use_item(g.inventory[key.index + 1], key.index, g, fv, inp)
                      ELSE g)
           [] key.k = "d" ->
                didnt(IF key.index < Len(g.inventory)
                      THEN drop_item(g.inventory[key.index + 1], key.index, g)
                      ELSE g)
           [] key.k = "<" ->
                IF OnStairs(g)
                THEN [action |-> "DidntTakeTurn", g |-> next_level_begin(g),
                      descended |-> TRUE]
                ELSE didnt(g)
           [] OTHER -> didnt(g)
    ELSE didnt(g))

(* the ids the rng is asked about in an AI pass *)
ConfusedIds(g) ==
    {id \in Ids(g) : IsSome(Obj(g, id).ai)
                     /\ Unwrap(Obj(g, id).ai).ai_type.kind = "Confused"}

(* play_game as it would be if the monsters' turn did not depend on the   *)
(* PlayerAction                                                            *)
play_game_any_action(gg, fv, key, inp, choice, r, rnd) ==
    Force(gg, LAMBDA g :
    LET g0 == [g EXCEPT !.last = [Step(key.k, key.index) EXCEPT
                                     !.dx = key.dx, !.dy = key.dy]]
        fv1 == render_fov(g, fv, r)
    IN  Force(handle_keys(check_level_up(render_all(g0), choice), fv1, key, inp),
              LAMBDA hk :
                [g |-> IF hk.action # "Exit" /\ hk.g.state = "Playing"
                          /\ ~hk.descended
                       THEN [ai_pass(0, Len(hk.g.objects), hk.g, fv1,
                                     [id \in Ids(hk.g) |->
                                        IF id \in DOMAIN rnd THEN rnd[id]
                                        ELSE <<0, 0>>])
                               EXCEPT !.last.turn = TRUE]
                       ELSE hk.g,
                 fov |-> fv1, action |-> hk.action,
                 descended |-> hk.descended]))

(* One iteration of the loop of Game::play_game: render_all,               *)
(* check_level_up, handle_keys and, after a turn, the monsters.            *)
play_game(gg, fv, key, inp, choice, r, rnd) ==
    Force(gg, LAMBDA g :
    LET g0 == [g EXCEPT !.last = [Step(key.k, key.index) EXCEPT
                                     !.dx = key.dx, !.dy = key.dy]]
        fv1 == render_fov(g, fv, r)
    IN  Force(handle_keys(check_level_up(render_all(g0), choice), fv1, key, inp),
              LAMBDA hk :
                [g |-> IF hk.action # "Exit" /\ hk.g.state = "Playing"
                          /\ hk.action # "DidntTakeTurn"
                       THEN [ai_pass(0, Len(hk.g.objects), hk.g, fv1,
                                     [id \in Ids(hk.g) |->
                                        IF id \in DOMAIN rnd THEN rnd[id]
                                        ELSE <<0, 0>>])
                               EXCEPT !.last.turn = TRUE]
                       ELSE hk.g,
                 fov |-> fv1, action |-> hk.action,
                 descended |-> hk.descended]))

---------------------------------------------------------------------------
(* The state as a Game record, and back *)

Game ==
    [state |-> state, dungeon_level |-> dungeon_level, map |-> map,
     fov_recompute |-> fov_recompute, messages |-> messages,
     objects |-> objects, player_id |-> player_id, stairs_id |-> stairs_id,
     inventory |-> inventory, deaths |-> deaths, confused |-> confused,
     last |-> last]

SetGame(g) ==
    /\ state' = g.state
    /\ dungeon_level' = g.dungeon_level
    /\ map' = g.map
    /\ fov_recompute' = g.fov_recompute
    /\ messages' = g.messages
    /\ objects' = g.objects
    /\ player_id' = g.player_id
    /\ stairs_id' = g.stairs_id
    /\ inventory' = g.inventory
    /\ deaths' = g.deaths
    /\ confused' = g.confused
    /\ last' = g.last

(* Game::new up to make_map's loop *)
NewPlayer ==
    [Object_new(0, 0, "@", "player", TRUE) EXCEPT
        !.fighter = Some([hp |-> 100, base_max_hp |-> 100, base_defense |-> 1,
                          base_power |-> 2, xp |-> 0, death |-> Some("Player")]),
        !.level = 1]

Game_new_begin ==
    make_map_begin(
        [state |-> "Playing", dungeon_level |-> 1,
         map |-> [t \in Tiles |-> Tile(TRUE)], fov_recompute |-> FALSE,
         messages |-> <<>>, objects |-> <<NewPlayer>>, player_id |-> 0,
         stairs_id |-> 0, inventory |-> <<>>, deaths |-> <<>>,
         confused |-> <<>>,
         last |-> Step("new", 0)])

(* Game::load_game: the games a former session can have stored on Exit.   *)
(* Each is a state of play on a dungeon level where its items and          *)
(* monsters exist (swords from level 4, fireballs from level 6), on a map  *)
(* of two rooms joined by a tunnel as make_map builds it; initialize_fov   *)
(* has run.                                                                *)
SavedRooms ==
    <<Rect_new(0, 0, ROOM_MIN_SIZE, ROOM_MIN_SIZE),
      Rect_new(ROOM_MIN_SIZE + 1, 1, ROOM_MIN_SIZE, ROOM_MIN_SIZE)>>

SavedMap ==
    LET c1 == center(SavedRooms[1])
        c2 == center(SavedRooms[2])
    IN  create_v_tunnel(c1[2], c2[2], c2[1],
            create_h_tunnel(c1[1], c2[1], c1[2],
                create_room(SavedRooms[2],
                    create_room(SavedRooms[1], [t \in Tiles |-> Tile(TRUE)]))))

SavedPlayer(hp) ==
    LET c == center(SavedRooms[1])
    IN  [NewPlayer EXCEPT !.x = c[1], !.y = c[2],
                          !.fighter = Some([Unwrap(@) EXCEPT !.hp = hp])]

SavedDagger ==
    [Object_new(0, 0, "-", "dagger", FALSE) EXCEPT
        !.equipment = Some([Equipment("right hand", 2, 0)
                              EXCEPT !.is_equipped = TRUE]),
        !.item = Some("None"),
        !.on_ground = FALSE]

SavedStairs ==
    LET c == center(SavedRooms[2])
    IN  [Object_new(c[1], c[2], "<", "stairs", FALSE) EXCEPT
            !.always_visible = TRUE]

Carried(o) == [o EXCEPT !.on_ground = FALSE]

SavedGame(level, objs, inv, conf) ==
    [state |-> "Playing", dungeon_level |-> level, map |-> SavedMap,
     fov_recompute |-> TRUE,
     messages |-> [i \in 1 .. MSG_HEIGHT |-> "attacks for hit points"],
     objects |-> objs \o <<SavedStairs>>, player_id |-> 0,
     stairs_id |-> Len(objs), inventory |-> inv, deaths |-> <<>>,
     confused |-> conf,
     last |-> Step("load", 0)]

(* the dagger in hand, a sword on the player's tile, a troll next to the   *)
(* player, who is in good health or nearly dead                            *)
SavedArmoury(hp) ==
    LET c == center(SavedRooms[1])
    IN  SavedGame(4, <<SavedPlayer(hp), SavedDagger,
                    NewMonster("Troll", c[1] + 1, c[2], 2),
                    NewItem("Sword", c[1], c[2])>>,
                  <<1>>, <<>>)

(* the inventory full: the dagger and 25 potions, one more potion on the   *)
(* player's tile                                                           *)
SavedFullPack ==
    LET c == center(SavedRooms[1])
    IN  SavedGame(4, <<SavedPlayer(100), SavedDagger>>
                  \o [i \in 1 .. INVENTORY_CAP - 1 |->
                         Carried(NewItem("Heal", c[1], c[2]))]
                  \o <<NewItem("Heal", c[1], c[2])>>,
                  [i \in 1 .. INVENTORY_CAP |-> i], <<>>)

(* a wounded orc next to the player, confused CONFUSE_NUM_TURNS - 1 AI     *)
(* turns ago, and one more scroll of confusion in the inventory            *)
SavedConfusion ==
    LET c == center(SavedRooms[1])
        orc == NewMonster("Orc", c[1] + 1, c[2], 3)
        ai == [monster_id |-> 3, old_ai |-> orc.ai,
               ai_type |-> [kind |-> "Confused", num_turns |-> 1]]
    IN  SavedGame(4, <<SavedPlayer(88), SavedDagger,
                    Carried(NewItem("Confuse", c[1], c[2])),
                    [orc EXCEPT !.ai = Some(ai),
                                !.fighter = Some([Unwrap(@) EXCEPT !.hp = 4])]>>,
                  <<1, 2>>,
                  [i \in {3} |-> [prev |-> orc.ai,
                                  passes |-> CONFUSE_NUM_TURNS - 1]])

(* a weakened player with a scroll of fireball and a scroll of lightning   *)
(* bolt, an orc next to the player and a troll behind the orc              *)
SavedSpells ==
    LET c == center(SavedRooms[1])
    IN  SavedGame(6, <<SavedPlayer(20), SavedDagger,
                       Carried(NewItem("Fireball", c[1], c[2])),
                       Carried(NewItem("Lighting", c[1], c[2])),
                       NewMonster("Orc", c[1] + 1, c[2], 4),
                       NewMonster("Troll", c[1] + 2, c[2], 5)>>,
                  <<1, 2, 3>>, <<>>)

(* a wounded player carrying a healing potion, no monster in sight *)
SavedWounded(hp) ==
    LET c == center(SavedRooms[1])
    IN  SavedGame(4, <<SavedPlayer(hp), SavedDagger,
                       Carried(NewItem("Heal", c[1], c[2]))>>,
                  <<1, 2>>, <<>>)

(* a wounded player standing on the stairs of the first level *)
SavedDescent(hp) ==
    LET c == center(SavedRooms[2])
    IN  SavedGame(1, <<[SavedPlayer(hp) EXCEPT !.x = c[1], !.y = c[2]],
                       SavedDagger>>,
                  <<1>>, <<>>)

(* a player nearly dead and one orc short of the second level, carrying a  *)
(* scroll of lightning bolt, between a wounded orc and a troll             *)
SavedVeteran ==
    LET c == center(SavedRooms[1])
        player == SavedPlayer(5)
    IN  SavedGame(4, <<[player EXCEPT !.fighter =
                           Some([Unwrap(@) EXCEPT !.xp = 3 * 100 + 35])],
                       SavedDagger,
                       Carried(NewItem("Lighting", c[1], c[2])),
                       [NewMonster("Orc", c[1] + 1, c[2], 3) EXCEPT
                           !.fighter = Some([Unwrap(@) EXCEPT !.hp = 4])],
                       NewMonster("Troll", c[1], c[2] + 1, 4)>>,
                  <<1, 2>>, <<>>)

(* a player carrying a scroll of lightning bolt in the first room and one  *)
(* orc in the second room, past the stairs                                 *)
SavedStorm ==
    LET c == center(SavedRooms[1])
        c2 == center(SavedRooms[2])
    IN  SavedGame(4, <<SavedPlayer(100), SavedDagger,
                       Carried(NewItem("Lighting", c[1], c[2])),
                       NewMonster("Orc", c2[1] + 1, c2[2], 3)>>,
                  <<1, 2>>, <<>>)

(* a player nearly dead between a troll, which acts first, and an orc *)
SavedAmbush ==
    LET c == center(SavedRooms[1])
    IN  SavedGame(4, <<SavedPlayer(5), SavedDagger,
                       NewMonster("Troll", c[1] + 1, c[2], 2),
                       NewMonster("Orc", c[1], c[2] + 1, 3)>>,
                  <<1>>, <<>>)

SavedGames ==
    {SavedArmoury(100), SavedArmoury(5), SavedFullPack, SavedConfusion,
     SavedSpells, SavedWounded(30), SavedWounded(70),
     SavedDescent(30), SavedDescent(70), SavedVeteran, SavedStorm,
     SavedAmbush}

(* main_menu: "Play a new game", or "Continue last game" with the file a   *)
(* former session wrote on Exit (render_all has run in the iteration that  *)
(* exits)                                                                  *)
Init ==
    /\ \E g0 \in {Game_new_begin} \cup SavedGames,
          loaded \in BOOLEAN :
       \E file \in {save_game(render_all(g0))} :
       \E g \in {IF loaded THEN load_game(file, g0) ELSE g0} :
          /\ loaded = (g0.last.op = "load")
          /\ savegame = IF loaded THEN Some(file) ELSE None
          /\ pc = IF g.last.op = "load" THEN "play" ELSE "make_map"
          /\ rooms = IF g.last.op = "load" THEN SavedRooms ELSE <<>>
          /\ attempt = IF g.last.op = "load" THEN MAX_ROOMS ELSE 0
          /\ from_new = (g.last.op # "load")
          /\ state = g.state
          /\ dungeon_level = g.dungeon_level
          /\ map = g.map
          /\ fov_recompute = g.fov_recompute
          /\ messages = g.messages
          /\ objects = g.objects
          /\ player_id = g.player_id
          /\ stairs_id = g.stairs_id
          /\ inventory = g.inventory
          /\ deaths = g.deaths
          /\ confused = g.confused
          /\ last = g.last
    /\ fov = [x |-> 0, y |-> 0, r |-> -1]
    /\ turns = 0

(* make_map: one iteration of its loop *)
GenRoom ==
    /\ pc = "make_map"
    /\ attempt < MAX_ROOMS
    /\ \E new_room \in Candidates :
          IF \E i \in 1 .. Len(rooms) : intersect(new_room, rooms[i])
          THEN /\ UNCHANGED gameVars
               /\ rooms' = rooms
          ELSE \E coin \in BOOLEAN,
                  mons \in MonsterPicks(new_room, dungeon_level),
                  its \in ItemPicks(new_room, dungeon_level) :
                  /\ SetGame([make_map_room(Game, rooms, new_room, coin, mons, its)
                                EXCEPT !.last.op = "room"])
                  /\ rooms' = Append(rooms, new_room)
    /\ attempt' = attempt + 1
    /\ UNCHANGED <<fov, pc, from_new, turns, savegame>>

(* make_map: the stairs, and the rest of its caller *)
GenEnd ==
    /\ pc = "make_map"
    /\ attempt = MAX_ROOMS
    /\ \E g1 \in {make_map_end(Game, rooms)} :
          SetGame(IF from_new THEN Game_new_end(g1) ELSE initialize_fov(g1))
    /\ pc' = "play"
    /\ from_new' = FALSE
    /\ UNCHANGED <<fov, rooms, attempt, turns, savegame>>

(* One loop iteration with the given key *)
Iterate(key, inp) ==
    /\ pc = "play"
    /\ turns < MaxTurns
    /\ \E choice \in (IF LevelUpDue(Game) THEN 0 .. 2 ELSE {0}),
          r \in (IF fov_recompute THEN FovRadii ELSE {fov.r}),
          rnd \in [ConfusedIds(Game) -> Offsets] :
          \E it \in {play_game(Game, fov, key, inp, choice, r, rnd)} :
              /\ SetGame(it.g)
              /\ fov' = it.fov
              /\ pc' = IF it.action = "Exit" THEN "exit"
                       ELSE IF it.descended THEN "make_map" ELSE "play"
              /\ rooms' = IF it.descended THEN <<>> ELSE rooms
              /\ attempt' = IF it.descended THEN 0 ELSE attempt
              /\ savegame' = IF it.action = "Exit" THEN Some(save_game(it.g))
                             ELSE savegame
    /\ turns' = turns + 1
    /\ UNCHANGED from_new

Move ==
    /\ pc = "play"
    /\ \E d \in Dirs : Iterate(Key("move", d[1], d[2], 0), NoInput)

Wait ==
    /\ pc = "play"
    /\ Iterate(Key("wait", 0, 0, 0), NoInput)

PickUp ==
    /\ pc = "play"
    /\ Iterate(Key("g", 0, 0, 0), NoInput)

(* 'i' and a letter of the inventory menu; the targeting answers depend    *)
(* on the item used                                                        *)
UseItem ==
    \E index \in 0 .. Len(inventory) - 1 :
       LET item == objects[inventory[index + 1] + 1].item
           r == IF fov_recompute THEN FovRadii ELSE {fov.r}
           tiles == IF item = Some("Fireball")
                    THEN {None} \cup
                         {Some(t) : t \in UNION {TargetTiles(Game,
                                         render_fov(Game, fov, rr)) : rr \in r}}
                    ELSE {None}
           mons == IF item = Some("Confuse")
                   THEN {None} \cup
                        {Some(m) : m \in UNION {TargetMonsters(CONFUSE_RANGE, Game,
                                         render_fov(Game, fov, rr)) : rr \in r}}
                   ELSE {None}
       IN  \E t \in tiles, m \in mons :
              Iterate(Key("i", 0, 0, index), [tile |-> t, monster |-> m])

DropItem ==
    \E index \in 0 .. Len(inventory) - 1 : Iterate(Key("d", 0, 0, index), NoInput)

(* 'c', a key that is not bound, or a menu left without a choice *)
OtherKey ==
    /\ pc = "play"
    /\ Iterate(Key("c", 0, 0, 0), NoInput)

NoEvent ==
    /\ pc = "play"
    /\ Iterate(Key("no event", 0, 0, 0), NoInput)

Descend ==
    /\ dungeon_level < MaxLevel
    /\ Iterate(Key("<", 0, 0, 0), NoInput)

Quit ==
    /\ pc = "play"
    /\ Iterate(Key("escape", 0, 0, 0), NoInput)

(* the program run again after Exit: "Continue last game" *)
Continue ==
    /\ pc = "exit"
    /\ IsSome(savegame)
    /\ SetGame(load_game(Unwrap(savegame), Game))
    /\ fov' = [x |-> 0, y |-> 0, r |-> -1]
    /\ pc' = "play"
    /\ UNCHANGED <<rooms, attempt, from_new, turns, savegame>>

Next ==
    \/ GenRoom
    \/ GenEnd
    \/ Move
    \/ Wait
    \/ PickUp
    \/ UseItem
    \/ DropItem
    \/ OtherKey
    \/ NoEvent
    \/ Descend
    \/ Quit
    \/ Continue

Spec == Init /\ [][Next]_vars

---------------------------------------------------------------------------
(* Properties *)

IsEquipped(o) == IsSome(o.equipment) /\ Unwrap(o.equipment).is_equipped

SameSlot(o, q) ==
    /\ IsSome(o.equipment)
    /\ IsSome(q.equipment)
    /\ Unwrap(o.equipment).slot = Unwrap(q.equipment).slot

OneEquippedPerSlot(objs) ==
    \A i \in DOMAIN objs, j \in DOMAIN objs :
        (IsEquipped(objs[i]) /\ IsEquipped(objs[j]) /\ SameSlot(objs[i], objs[j]))
            => i = j

(* the loop iteration being taken handles key op with the game in play *)
Handles(op) == pc = "play" /\ state = "Playing" /\ last'.op = op

(* C1: in every state at most one entity of the arena is equipped per      *)
(* equipment slot; and when the inventory entry chosen with 'i' is an      *)
(* unequipped piece of equipment while another entity of its slot is       *)
(* equipped, the step that equips it leaves that other entity dequipped.   *)
C1_OneEquippedPerSlot ==
    [][/\ OneEquippedPerSlot(objects)
       /\ OneEquippedPerSlot(objects')
       /\ (Handles("i") /\ last'.index < Len(inventory))
            => LET id == inventory[last'.index + 1]
                   o == objects[id + 1]
               IN  (/\ IsSome(o.item)
                    /\ IsSome(o.equipment)
                    /\ ~IsEquipped(o)
                    /\ \E j \in DOMAIN objects :
                          IsEquipped(objects[j]) /\ SameSlot(objects[j], o))
                     => /\ IsEquipped(objects'[id + 1])
                        /\ \A j \in DOMAIN objects' :
                              (j # id + 1 /\ SameSlot(objects'[j], o))
                                 => ~IsEquipped(objects'[j])]_vars

(* the sword was equipped from the inventory while the dagger was in hand: *)
(* the dagger is dequipped, the sword equipped                             *)
C1_Witness ==
    /\ last.op = "i"
    /\ \E i \in DOMAIN inventory, j \in DOMAIN inventory :
          /\ objects[inventory[i] + 1].name = "sword"
          /\ IsEquipped(objects[inventory[i] + 1])
          /\ objects[inventory[j] + 1].name = "dagger"
          /\ ~IsEquipped(objects[inventory[j] + 1])
    /\ Len(messages) >= 2
    /\ messages[Len(messages) - 1] = "Dequipped"
    /\ messages[Len(messages)] = "Equipped"

(* C2: the inventory never holds more than 26 entries; and a pick-up       *)
(* attempted with 26 entries leaves the inventory, every on_ground flag    *)
(* and every Equipment unchanged and logs "inventory is full" - with no    *)
(* level-up in the same loop iteration that message is the only change.    *)
C2_InventoryCap ==
    [][/\ Len(inventory) <= 26
       /\ Len(inventory') <= 26
       /\ (Handles("g") /\ Len(inventory) = 26 /\ IsSome(ItemHere(Game)))
            => /\ inventory' = inventory
               /\ DOMAIN objects' = DOMAIN objects
               /\ \A i \in DOMAIN objects :
                     /\ objects'[i].on_ground = objects[i].on_ground
                     /\ objects'[i].equipment = objects[i].equipment
               /\ messages'[Len(messages')] = "Your inventory is full"
               /\ ~LevelUpDue(Game)
                    => /\ objects' = objects
                       /\ messages' =
                            Append(IF Len(messages) = MSG_HEIGHT
                                   THEN Tail(messages) ELSE messages,
                                   "Your inventory is full")]_vars

(* a pick-up was refused: 26 entries, the item still on the ground under   *)
(* the player                                                              *)
C2_Witness ==
    /\ last.op = "g"
    /\ Len(inventory) = 26
    /\ messages[Len(messages)] = "Your inventory is full"
    /\ IsSome(ItemHere(Game))

(* C3: every attack leaves the target's hp at its hp before minus          *)
(* max(0, power - defense), power and defense being full_power of the      *)
(* attacker and full_defense of the target (a target that lost its Fighter *)
(* was brought to 0 or below); an attack of difference <= 0 changes no hp  *)
(* and logs "no effect"; and take_damage with an amount <= 0 leaves the hp *)
(* of every entity as it is.                                               *)
C3_AttackDamage ==
    /\ \A k \in DOMAIN last.attacks :
          LET h == last.attacks[k]
              damage == Max(0, h.power - h.defense)
          IN  /\ IsSome(h.before)
              /\ IsSome(h.after) => Unwrap(h.after) = Unwrap(h.before) - damage
              /\ ~IsSome(h.after) => Unwrap(h.before) - damage <= 0
              /\ h.power - h.defense <= 0
                    => /\ h.after = h.before
                       /\ h.said = Some("attacks but it has no effect!")
    /\ \A id \in Ids(Game), amount \in {-1, 0} :
          LET f == Obj(Game, id).fighter
              f1 == Obj(take_damage(id, amount, Game), id).fighter
          IN  IsSome(f) => (IsSome(f1) /\ Unwrap(f1).hp = Unwrap(f).hp)

(* the player, the dagger put away, struck the troll to no effect, and the *)
(* troll struck back for its power less the player's defense               *)
C3_Witness ==
    /\ Len(last.attacks) = 2
    /\ last.attacks[1].attacker = player_id
    /\ last.attacks[1].power <= last.attacks[1].defense
    /\ last.attacks[1].after = last.attacks[1].before
    /\ last.attacks[2].target = player_id
    /\ last.attacks[2].power > last.attacks[2].defense
    /\ Unwrap(last.attacks[2].after) < Unwrap(last.attacks[2].before)

NoDuplicates(q) == \A i \in DOMAIN q, j \in DOMAIN q : q[i] = q[j] => i = j

(* C4: take_damage on an entity without a Fighter changes nothing, and no  *)
(* entity's death outcome fires twice.                                     *)
C4_DeathOnce ==
    /\ NoDuplicates(deaths)
    /\ \A id \in Ids(Game), amount \in {-1, 0, 1, FIREBALL_DAMAGE} :
          ~IsSome(Obj(Game, id).fighter) => take_damage(id, amount, Game) = Game

(* a monster died and the player has since stepped onto its remains: the   *)
(* move found no Fighter to attack                                         *)
C4_Witness ==
    /\ last.op = "move"
    /\ \E id \in Ids(Game) :
          /\ id # player_id
          /\ \E k \in DOMAIN deaths : deaths[k] = id
          /\ ~IsSome(Obj(Game, id).fighter)
          /\ pos(Obj(Game, id)) = pos(Obj(Game, player_id))

(* the AI of id is Confused with n turns left and previous AI prev *)
ConfusedWith(id, n, prev) ==
    LET ai == Obj(Game, id).ai
    IN  /\ IsSome(ai)
        /\ Unwrap(ai).ai_type = [kind |-> "Confused", num_turns |-> n]
        /\ Unwrap(ai).old_ai = prev

(* C5, as amended: an entity confused by cast_confuse, and neither         *)
(* confused again nor killed since, is Confused with CONFUSE_NUM_TURNS - k *)
(* turns left after k <= CONFUSE_NUM_TURNS AI turns, and has its previous  *)
(* AI back after CONFUSE_NUM_TURNS + 1 AI turns and from then on.          *)
C5_ConfusionEnds ==
    \A id \in DOMAIN confused :
        LET c == confused[id]
        IN  /\ c.passes <= CONFUSE_NUM_TURNS
                => ConfusedWith(id, CONFUSE_NUM_TURNS - c.passes, c.prev)
            /\ c.passes > CONFUSE_NUM_TURNS => Obj(Game, id).ai = c.prev

(* the AI turn after the last confused one has given the orc its AI back *)
C5_Witness ==
    \E id \in DOMAIN confused :
        /\ confused[id].passes = CONFUSE_NUM_TURNS + 1
        /\ Obj(Game, id).ai = confused[id].prev
        /\ messages[Len(messages)] = "is no longer confused!"

(* C5 as stated: the previous AI is back once CONFUSE_NUM_TURNS AI turns   *)
(* have run, and not before.                                               *)
C5_AsStated ==
    \A id \in DOMAIN confused :
        LET c == confused[id]
        IN  /\ c.passes < CONFUSE_NUM_TURNS
                => ConfusedWith(id, CONFUSE_NUM_TURNS - c.passes, c.prev)
            /\ c.passes >= CONFUSE_NUM_TURNS => Obj(Game, id).ai = c.prev

(* an entity as place_objects or make_map creates it *)
Fresh(o) ==
    /\ o.on_ground
    /\ ~IsEquipped(o)
    /\ o.name \in {"orc", "troll", "stairs", "healing potion", "sword", "shield",
                   "scroll of lightning bolt", "scroll of fireball",
                   "scroll of confusion"}
    /\ IsSome(o.fighter)
          => /\ Unwrap(o.fighter).hp = Unwrap(o.fighter).base_max_hp
             /\ IsSome(o.ai)
             /\ Unwrap(o.ai).ai_type.kind = "Basic"

(* o with the fields a level transition may change blanked *)
Kept(o) ==
    [o EXCEPT !.x = 0, !.y = 0,
              !.fighter = IF IsSome(@) THEN Some([Unwrap(@) EXCEPT !.hp = 0])
                          ELSE None]

(* C6: the step that descends leaves an arena of the player followed by    *)
(* the inventoried entities in inventory order and nothing else, the       *)
(* inventory holding 1 .. n; every inventoried entity is unchanged, and    *)
(* the player is unchanged but for its hp (and for the level-up the same   *)
(* loop iteration applied first); the generation that follows keeps these  *)
(* entities and the inventory and only appends fresh entities.             *)
C6_NextLevelArena ==
    [][/\ (pc = "play" /\ pc' = "make_map")
            => /\ player_id' = 0
               /\ Len(objects') = 1 + Len(inventory)
               /\ inventory' = [i \in 1 .. Len(inventory) |-> i]
               /\ \A i \in 1 .. Len(inventory) :
                     objects'[i + 1] = objects[inventory[i] + 1]
               /\ \E choice \in 0 .. 2 :
                     Kept(objects'[1]) =
                        Kept(Obj(check_level_up(Game, choice), player_id))
               /\ ~LevelUpDue(Game) => Kept(objects'[1]) = Kept(objects[player_id + 1])
       /\ (pc = "make_map" /\ ~from_new)
            => /\ player_id' = player_id
               /\ inventory' = inventory
               /\ Len(objects') >= Len(objects)
               /\ Kept(objects'[1]) = Kept(objects[1])
               /\ \A i \in 2 .. Len(objects) : objects'[i] = objects[i]
               /\ \A i \in Len(objects) + 1 .. Len(objects') : Fresh(objects'[i])]_vars

(* level 2 in play: the dagger carried down as entity 1, still in hand,    *)
(* among the entities of the new level                                     *)
C6_Witness ==
    /\ pc = "play"
    /\ dungeon_level = 2
    /\ inventory = <<1>>
    /\ objects[2].name = "dagger"
    /\ IsEquipped(objects[2])
    /\ Len(objects) > 3

IsPlayerDeath(o) ==
    IsSome(o.fighter) /\ Unwrap(o.fighter).death = Some("Player")

(* C7: player_id is the index of an entity whose death outcome is Player,  *)
(* and no other entity of the arena has that death outcome.                *)
C7_OnePlayer ==
    /\ player_id \in Ids(Game)
    /\ IsPlayerDeath(Obj(Game, player_id))
    /\ \A id \in Ids(Game) : IsPlayerDeath(Obj(Game, id)) => id = player_id

(* the player has died, on a level reached or loaded, and is still the     *)
(* entity of death outcome Player                                          *)
C7_Witness ==
    /\ state = "Death"
    /\ \E k \in DOMAIN deaths : deaths[k] = player_id
    /\ IsPlayerDeath(Obj(Game, player_id))

(* C8: once a map is generated, and until the next generation, stairs_id   *)
(* is the index of the only stairs entity of the arena, which is at the    *)
(* center of the last accepted room, on an unblocked tile, always visible, *)
(* not blocking and without Fighter and AI.                                *)
C8_Stairs ==
    pc # "make_map"
        => /\ stairs_id \in Ids(Game)
           /\ \A id \in Ids(Game) :
                 (Obj(Game, id).name = "stairs" \/ Obj(Game, id).char = "<")
                     <=> id = stairs_id
           /\ rooms # <<>>
           /\ pos(Obj(Game, stairs_id)) = center(rooms[Len(rooms)])
           /\ ~map[pos(Obj(Game, stairs_id))].blocked
           /\ Obj(Game, stairs_id).always_visible
           /\ ~Obj(Game, stairs_id).blocks
           /\ Obj(Game, stairs_id).fighter = None
           /\ Obj(Game, stairs_id).ai = None

(* a level of two rooms generated by a descent, the stairs in the second   *)
C8_Witness ==
    /\ pc = "play"
    /\ dungeon_level = 2
    /\ Len(rooms) = 2
    /\ pos(Obj(Game, stairs_id)) = center(rooms[2])
    /\ center(rooms[2]) # center(rooms[1])

(* the unblocked tiles reached from the tiles of frontier by steps to one  *)
(* of the four neighbours                                                  *)
RECURSIVE Flood(_, _)
Flood(seen, frontier) ==
    IF frontier = {} THEN seen
    ELSE LET next == {t \in Tiles \ seen :
                        /\ ~map[t].blocked
                        /\ \E f \in frontier :
                              \/ (t[1] = f[1] /\ (t[2] = f[2] + 1 \/ t[2] = f[2] - 1))
                              \/ (t[2] = f[2] /\ (t[1] = f[1] + 1 \/ t[1] = f[1] - 1))}
         IN  Flood(seen \cup next, next)

Connected(a, b) == ~map[a].blocked /\ b \in Flood({a}, {a})

(* C9: the centers of every two consecutively accepted rooms are joined by *)
(* a path of unblocked tiles; after make_map the player stands on the      *)
(* center of the first accepted room, and that tile is joined to the tile  *)
(* of the stairs.                                                          *)
C9_RoomsConnected ==
    /\ \A i \in 1 .. Len(rooms) - 1 :
          Connected(center(rooms[i]), center(rooms[i + 1]))
    /\ (pc = "play" /\ last.op = "room")
          => pos(Obj(Game, player_id)) = center(rooms[1])
    /\ pc # "make_map"
          => Connected(center(rooms[1]), pos(Obj(Game, stairs_id)))

(* a generated level whose two rooms have centers in different rows and    *)
(* columns, the player on the first                                        *)
C9_Witness ==
    /\ pc = "play"
    /\ last.op = "room"
    /\ Len(rooms) = 2
    /\ center(rooms[1])[1] # center(rooms[2])[1]
    /\ center(rooms[1])[2] # center(rooms[2])[2]
    /\ pos(Obj(Game, player_id)) # pos(Obj(Game, stairs_id))

Overlap(r, o) == r.x1 <= o.x2 /\ r.x2 >= o.x1 /\ r.y1 <= o.y2 /\ r.y2 >= o.y1

(* C10: no two accepted rooms overlap under the inclusive test, and an     *)
(* iteration of make_map that accepts no room changes neither the map nor  *)
(* the arena.                                                              *)
C10_RoomsDisjoint ==
    [][/\ \A i \in DOMAIN rooms', j \in DOMAIN rooms' :
             i # j => ~Overlap(rooms'[i], rooms'[j])
       /\ (pc = "make_map" /\ attempt' = attempt + 1 /\ rooms' = rooms)
            => /\ map' = map
               /\ objects' = objects
               /\ inventory' = inventory
               /\ player_id' = player_id]_vars

(* make_map's loop is over and a candidate was discarded: one room *)
C10_Witness ==
    /\ pc = "make_map"
    /\ attempt = MAX_ROOMS
    /\ Len(rooms) = 1
    /\ Cardinality({t \in Tiles : ~map[t].blocked})
          = (ROOM_MIN_SIZE - 1) * (ROOM_MIN_SIZE - 1)

(* the game as check_level_up can leave it at the start of a loop iteration *)
LevelChecked == {check_level_up(Game, choice) : choice \in 0 .. 2}

(* C11: when the effect of the entry used with 'i' returns Cancelled, the  *)
(* arena (every hp, every AI, every other field), the inventory, the map,  *)
(* the state and the level are as the iteration's level-up check left them *)
(* (as before when no level-up was due) and the log ends with "Cancelled"; *)
(* when it returns Used, the inventory is as before with exactly the entry *)
(* at the used index removed.                                              *)
C11_UseItemAllOrNothing ==
    [][(Handles("i") /\ last'.index < Len(inventory))
          => /\ last'.res = "Cancelled"
                  => /\ inventory' = inventory
                     /\ \E g \in LevelChecked : objects' = g.objects
                     /\ ~LevelUpDue(Game) => objects' = objects
                     /\ state' = state
                     /\ dungeon_level' = dungeon_level
                     /\ map' = map
                     /\ player_id' = player_id
                     /\ stairs_id' = stairs_id
                     /\ deaths' = deaths
                     /\ messages'[Len(messages')] = "Cancelled"
             /\ last'.res = "Used"
                  => /\ Len(inventory') = Len(inventory) - 1
                     /\ \A i \in 1 .. Len(inventory') :
                           inventory'[i] =
                              inventory[IF i <= last'.index THEN i ELSE i + 1]]_vars

(* the fireball was aborted at the targeting: the scroll is still carried, *)
(* the orc and the troll unhurt                                            *)
C11_Witness ==
    /\ last.op = "i"
    /\ last.res = "Cancelled"
    /\ messages[Len(messages)] = "Cancelled"
    /\ \E i \in DOMAIN inventory :
          /\ i = last.index + 1
          /\ Obj(Game, inventory[i]).item = Some("Fireball")
    /\ \A id \in Ids(Game) :
          IsSome(Obj(Game, id).ai)
             => Unwrap(Obj(Game, id).fighter).hp
                   = Unwrap(Obj(Game, id).fighter).base_max_hp

(* C12: when the entry used with 'i' is a healing potion, with hp and      *)
(* full_max_hp of the player as the iteration's level-up check left them:  *)
(* if hp = full_max_hp the result is Cancelled, the hp is unchanged and    *)
(* the inventory is as before; otherwise the result is Used, the hp is     *)
(* min(hp + HEAL_AMOUNT, full_max_hp) and the potion has left the          *)
(* inventory.                                                              *)
C12_Heal ==
    [][(/\ Handles("i")
        /\ last'.index < Len(inventory)
        /\ Obj(Game, inventory[last'.index + 1]).item = Some("Heal"))
          => \E g \in LevelChecked :
                LET hp == Unwrap(Obj(g, player_id).fighter).hp
                    max_hp == full_max_hp(player_id, g)
                    hp1 == Unwrap(objects'[player_id + 1].fighter).hp
                IN  /\ ~LevelUpDue(Game) => g.objects = objects
                    /\ IF hp = max_hp
                       THEN /\ last'.res = "Cancelled"
                            /\ hp1 = hp
                            /\ inventory' = inventory
                       ELSE /\ last'.res = "Used"
                            /\ hp1 = Min(hp + HEAL_AMOUNT, max_hp)
                            /\ inventory' = Vec_remove(inventory, last'.index)]_vars

(* a potion drunk less than HEAL_AMOUNT below the maximum: the hp is at    *)
(* the maximum and the potion is gone                                      *)
C12_Witness ==
    /\ last.op = "i"
    /\ last.res = "Used"
    /\ messages[Len(messages)] = "Your wounds start to feel better!"
    /\ Unwrap(Obj(Game, player_id).fighter).hp = full_max_hp(player_id, Game)
    /\ \A i \in DOMAIN inventory : Obj(Game, inventory[i]).item # Some("Heal")

(* C13: with the game in play and the arena as the iteration's level-up    *)
(* check left it, '<' pressed with the player on the tile of the stairs    *)
(* raises dungeon_level by 1, sets the player's hp to                      *)
(* min(hp + full_max_hp \div 2, full_max_hp) and starts make_map; pressed  *)
(* elsewhere it leaves dungeon_level, the map, the arena and the inventory *)
(* as they were.  No other step changes dungeon_level, and make_map leaves *)
(* the player's Fighter as the descent set it.                             *)
C13_Descend ==
    [][/\ Handles("<")
            => \E g \in LevelChecked :
                  LET hp == Unwrap(Obj(g, player_id).fighter).hp
                      max_hp == full_max_hp(player_id, g)
                      hp1 == Unwrap(objects'[player_id' + 1].fighter).hp
                  IN  /\ ~LevelUpDue(Game) => g.objects = objects
                      /\ IF pos(Obj(g, stairs_id)) = pos(Obj(g, player_id))
                         THEN /\ dungeon_level' = dungeon_level + 1
                              /\ hp1 = Min(hp + max_hp \div 2, max_hp)
                              /\ pc' = "make_map"
                         ELSE /\ dungeon_level' = dungeon_level
                              /\ map' = map
                              /\ objects' = g.objects
                              /\ inventory' = inventory
                              /\ pc' = "play"
       /\ dungeon_level' # dungeon_level
            => /\ Handles("<")
               /\ pos(objects[stairs_id + 1]) = pos(objects[player_id + 1])
       /\ pc = "make_map"
            => objects'[player_id' + 1].fighter = objects[player_id + 1].fighter]_vars

(* the player went down the stairs at hp 30 and is at hp 80 on level 2 *)
C13_Witness ==
    /\ dungeon_level = 2
    /\ pc = "play"
    /\ Unwrap(Obj(Game, player_id).fighter).hp = 80
    /\ full_max_hp(player_id, Game) = 100

(* the keys that are not movement keys *)
NonMovement == {"g", "i", "d", "c", "<", "no event"}

(* the AI cast_confuse gives id in place of the AI old *)
ConfuseAI(id, old) ==
    Some([monster_id |-> id, old_ai |-> old,
          ai_type |-> [kind |-> "Confused", num_turns |-> CONFUSE_NUM_TURNS]])

(* C14: a loop iteration handling a key that is not a movement key runs no *)
(* AI pass: no attack is made by a monster, and unless the step descends   *)
(* every entity holding an AI stays where it is, with its AI as it was -   *)
(* but for the entity the used scroll confused or killed - and no confused *)
(* entity has taken an AI turn.                                            *)
C14_NoAIPass ==
    [][(pc = "play" /\ last'.op \in NonMovement)
          => /\ ~last'.turn
             /\ last'.attacks = <<>>
             /\ pc' = "play"
                  => /\ Len(objects') = Len(objects)
                     /\ \A id \in Ids(Game) :
                           IsSome(Obj(Game, id).ai)
                              => /\ pos(objects'[id + 1]) = pos(objects[id + 1])
                                 /\ \/ objects'[id + 1].ai = objects[id + 1].ai
                                    \/ /\ last'.op = "i"
                                       /\ last'.res = "Used"
                                       /\ \/ /\ objects'[id + 1].ai = None
                                             /\ objects'[id + 1].fighter = None
                                          \/ objects'[id + 1].ai =
                                                ConfuseAI(id, objects[id + 1].ai)
                     /\ \A id \in DOMAIN confused \cap DOMAIN confused' :
                           \/ confused'[id].passes = confused[id].passes
                           \/ /\ confused'[id].passes = 0
                              /\ last'.op = "i"]_vars

(* the sword was picked up next to a troll that sees the player and would  *)
(* have struck in an AI pass: no attack was made                           *)
C14_Witness ==
    /\ last.op = "g"
    /\ ~last.turn
    /\ last.attacks = <<>>
    /\ \E i \in DOMAIN inventory : Obj(Game, inventory[i]).name = "sword"
    /\ \E id \in Ids(Game) :
          /\ IsSome(Obj(Game, id).ai)
          /\ Unwrap(Obj(Game, id).ai).ai_type.kind = "Basic"
          /\ is_in_fov(fov, Obj(Game, id).x, Obj(Game, id).y)
          /\ distance2(Obj(Game, player_id), Obj(Game, id).x, Obj(Game, id).y) < 4
    /\ Unwrap(Obj(Game, player_id).fighter).hp = 100

(* the keys whose PlayerAction is None: the player took a turn *)
TurnKeys == {"move", "wait"}

(* what a level-up changes of the player *)
PlayerStats(o) ==
    [level |-> o.level,
     base_max_hp |-> Unwrap(o.fighter).base_max_hp,
     base_power |-> Unwrap(o.fighter).base_power,
     base_defense |-> Unwrap(o.fighter).base_defense]

(* this step raised the player's level or a base stat, or debited xp *)
LeveledUp ==
    \/ PlayerStats(objects'[player_id' + 1]) # PlayerStats(objects[player_id + 1])
    \/ Unwrap(objects'[player_id' + 1].fighter).xp
          < Unwrap(objects[player_id + 1].fighter).xp

(* C15: the player's level, base stats and xp debit change only in a step  *)
(* taken in state Playing, and only when the action handled just before or *)
(* the action this step handles is one that takes a turn.                  *)
C15_LevelUpGated ==
    [][LeveledUp
          => /\ state = "Playing"
             /\ (last.op \in TurnKeys \/ last'.op \in TurnKeys)]_vars

(* the position, level, capabilities and AI of an entity *)
Condition(o) ==
    [x |-> o.x, y |-> o.y, level |-> o.level, fighter |-> o.fighter,
     ai |-> o.ai, item |-> o.item, equipment |-> o.equipment]

(* C16: a step taken in state Death leaves the state Death, the position, *)
(* hp, level, stats, capabilities and AI of every entity, the inventory    *)
(* and dungeon_level as they are, and either goes on waiting for a key or  *)
(* exits.                                                                  *)
C16_DeathTerminal ==
    [][state = "Death"
          => /\ state' = "Death"
             /\ Len(objects') = Len(objects)
             /\ \A i \in DOMAIN objects :
                   Condition(objects'[i]) = Condition(objects[i])
             /\ inventory' = inventory
             /\ dungeon_level' = dungeon_level
             /\ pc' \in {"play", "exit"}]_vars

(* the sum of the bonus `field` over the first n inventory entries that    *)
(* are equipped                                                            *)
RECURSIVE EquippedBonus(_, _, _, _)
EquippedBonus(inv, objs, n, field) ==
    IF n = 0 THEN 0
    ELSE LET e == objs[inv[n] + 1].equipment
         IN  (IF IsSome(e) /\ Unwrap(e).is_equipped THEN Unwrap(e)[field] ELSE 0)
             + EquippedBonus(inv, objs, n - 1, field)

(* the base stat of id, 0 without a Fighter *)
BaseStat(g, id, field) ==
    IF IsSome(Obj(g, id).fighter) THEN Unwrap(Obj(g, id).fighter)[field] ELSE 0

(* full_power, full_defense and full_max_hp of id *)
FullStats(id, g) ==
    <<full_power(id, g), full_defense(id, g), full_max_hp(id, g)>>

(* g with the equipped flag of entity id flipped *)
Toggled(g, id) ==
    [g EXCEPT !.objects[id + 1].equipment =
                  Some([Unwrap(@) EXCEPT !.is_equipped = ~@])]

(* C17: for the player the three full stats are the base stat plus the sum *)
(* of the matching bonus over the inventory entries that are equipped, for *)
(* every other entity they are the base stat alone (0 without a Fighter);  *)
(* and flipping the equipped flag of one inventory entry changes the       *)
(* player's full stats by exactly that entry's bonuses, added when it      *)
(* becomes equipped and subtracted when it stops being so, and changes the *)
(* full stats of no other entity.                                          *)
C17_FullStats ==
    /\ \A id \in Ids(Game) :
          LET bonus(field) ==
                 IF id = player_id
                 THEN EquippedBonus(inventory, objects, Len(inventory), field)
                 ELSE 0
          IN  FullStats(id, Game) =
                 <<BaseStat(Game, id, "base_power") + bonus("power_bonus"),
                   BaseStat(Game, id, "base_defense") + bonus("defense_bonus"),
                   BaseStat(Game, id, "base_max_hp") + bonus("max_hp_bonus")>>
    /\ \A i \in DOMAIN inventory :
          LET e == Obj(Game, inventory[i]).equipment
              sign == IF Unwrap(e).is_equipped THEN -1 ELSE 1
              g1 == Toggled(Game, inventory[i])
              before == FullStats(player_id, Game)
          IN  IsSome(e)
                 => /\ FullStats(player_id, g1) =
                          <<before[1] + sign * Unwrap(e).power_bonus,
                            before[2] + sign * Unwrap(e).defense_bonus,
                            before[3] + sign * Unwrap(e).max_hp_bonus>>
                    /\ \A id \in Ids(Game) \ {player_id} :
                          FullStats(id, g1) = FullStats(id, Game)

(* the sword in hand and the dagger carried, next to the troll: the        *)
(* player's power is the base 2 and the sword's 3, the troll's its base 8  *)
C17_Witness ==
    /\ last.op = "i"
    /\ \E i \in DOMAIN inventory, j \in DOMAIN inventory :
          /\ Obj(Game, inventory[i]).name = "sword"
          /\ IsEquipped(Obj(Game, inventory[i]))
          /\ Obj(Game, inventory[j]).name = "dagger"
          /\ ~IsEquipped(Obj(Game, inventory[j]))
    /\ full_power(player_id, Game) = 5
    /\ \E id \in Ids(Game) :
          Obj(Game, id).name = "troll" /\ full_power(id, Game) = 8

(* Game::new has returned and play_game has not yet handled a key *)
NewGame == pc = "play" /\ turns = 0 /\ last.op # "load"

(* C18: the game Game::new returns is in state Playing at dungeon_level 1; *)
(* the player has hp 100 and full_max_hp 100; the inventory holds exactly  *)
(* one entity, the dagger, equipped in the slot "right hand" with power    *)
(* bonus 2, and full_power of the player is its base power plus 2.         *)
C18_NewGame ==
    NewGame
       => /\ state = "Playing"
          /\ dungeon_level = 1
          /\ Unwrap(Obj(Game, player_id).fighter).hp = 100
          /\ full_max_hp(player_id, Game) = 100
          /\ Len(inventory) = 1
          /\ inventory[1] \in Ids(Game)
          /\ Obj(Game, inventory[1]).name = "dagger"
          /\ Obj(Game, inventory[1]).equipment =
                Some([slot |-> "right hand", is_equipped |-> TRUE,
                      power_bonus |-> 2, defense_bonus |-> 0, max_hp_bonus |-> 0])
          /\ full_power(player_id, Game) =
                Unwrap(Obj(Game, player_id).fighter).base_power + 2

(* a new game on a level of two rooms with a monster in it *)
C18_Witness ==
    /\ NewGame
    /\ Len(rooms) = 2
    /\ messages = <<"Welcome stranger!", "Equipped">>
    /\ full_power(player_id, Game) = 4
    /\ \E id \in Ids(Game) : IsSome(Obj(Game, id).ai)

(* a scroll of fireball is carried *)
HasFireball ==
    \E i \in DOMAIN inventory : Obj(Game, inventory[i]).item = Some("Fireball")

(* the hp of f after one application of FIREBALL_DAMAGE is that of f1, or  *)
(* f1 is the missing Fighter of an entity the damage killed                *)
BurnedOnce(f, f1) ==
    \/ IsSome(f1) /\ Unwrap(f1).hp = Unwrap(f).hp - FIREBALL_DAMAGE
    \/ ~IsSome(f1) /\ Unwrap(f).hp - FIREBALL_DAMAGE <= 0

(* C19: in every state of play in which a scroll of fireball is carried,   *)
(* cast_fireball with any tile chosen returns Used and leaves every entity *)
(* that has a Fighter and is within FIREBALL_RADIUS of the tile, the       *)
(* player among them, with its hp less FIREBALL_DAMAGE (or without Fighter *)
(* if that killed it), and every other entity with the Fighter it had but  *)
(* for the xp the player earns; with the targeting aborted it returns      *)
(* Cancelled and leaves the arena as it is.                                *)
C19_Fireball ==
    (pc = "play" /\ state = "Playing" /\ HasFireball)
       => /\ cast_fireball(Game, None).res = "Cancelled"
          /\ cast_fireball(Game, None).g.objects = objects
          /\ \A t \in Tiles :
                LET u == cast_fireball(Game, Some(t))
                IN  /\ u.res = "Used"
                    /\ Len(u.g.objects) = Len(objects)
                    /\ \A id \in Ids(Game) :
                          LET f == Obj(Game, id).fighter
                              f1 == Obj(u.g, id).fighter
                          IN  IF /\ IsSome(f)
                                 /\ distance2(Obj(Game, id), t[1], t[2])
                                       <= FIREBALL_RADIUS * FIREBALL_RADIUS
                              THEN BurnedOnce(f, f1)
                              ELSE /\ IsSome(f1) = IsSome(f)
                                   /\ IsSome(f)
                                        => [Unwrap(f1) EXCEPT !.xp = 0] =
                                           [Unwrap(f) EXCEPT !.xp = 0]

(* the fireball was thrown at a tile more than FIREBALL_RADIUS from the    *)
(* player: the orc is dead, the troll burned, the player's hp as it was    *)
C19_Witness ==
    /\ last.op = "i"
    /\ last.res = "Used"
    /\ ~HasFireball
    /\ \E k \in DOMAIN messages : messages[k] = "The fireball explodes"
    /\ Unwrap(Obj(Game, player_id).fighter).hp = 20
    /\ \E id \in Ids(Game) :
          Obj(Game, id).name = "remains of orc" /\ Obj(Game, id).fighter = None
    /\ \E id \in Ids(Game) :
          /\ Obj(Game, id).name = "troll"
          /\ Unwrap(Obj(Game, id).fighter).hp = 30 - FIREBALL_DAMAGE

(* g agrees with the state in every field of Game but fov_recompute *)
SameGame(g) ==
    /\ g.state = state
    /\ g.dungeon_level = dungeon_level
    /\ g.map = map
    /\ g.messages = messages
    /\ g.objects = objects
    /\ g.player_id = player_id
    /\ g.stairs_id = stairs_id
    /\ g.inventory = inventory

IdleKeys == {"c", "no event"}

(* the answers the level-up menu can give before a valid one: the prompt   *)
(* left with Escape or with a key that is no option, up to twice           *)
InvalidAnswers == {<<>>, <<None>>, <<None, None>>}

(* the player's Fighter after a level-up ended by choice c, from fighter f *)
(* with the xp debited                                                     *)
Raised(f, c) ==
    CASE c = 0 -> [f EXCEPT !.base_max_hp = @ + 20, !.hp = @ + 20]
      [] c = 1 -> [f EXCEPT !.base_power = @ + 1]
      [] c = 2 -> [f EXCEPT !.base_defense = @ + 1]

(* C21: in a loop iteration whose key does nothing, the step is the        *)
(* level-up check.  With xp >= LEVEL_UP_BASE + level * LEVEL_UP_FACTOR the  *)
(* player's level grows by exactly 1, the xp falls by exactly that          *)
(* threshold (taken with the level before), and the Fighter is otherwise    *)
(* changed by exactly one of: base_max_hp and hp + 20, base_power + 1,      *)
(* base_defense + 1; the prompts answered without a valid choice before     *)
(* change nothing; no other entity changes.  With xp below the threshold    *)
(* the arena is unchanged.                                                  *)
C21_LevelUp ==
    [][(pc = "play" /\ last'.op \in IdleKeys)
          => LET player == objects[player_id + 1]
                 f == Unwrap(player.fighter)
                 threshold == LEVEL_UP_BASE + player.level * LEVEL_UP_FACTOR
                 f1 == Unwrap(objects'[player_id + 1].fighter)
                 debited == [f EXCEPT !.xp = @ - threshold]
             IN  IF f.xp >= threshold
                 THEN /\ objects'[player_id + 1].level = player.level + 1
                      /\ f1.xp = f.xp - threshold
                      /\ Cardinality({c \in 0 .. 2 : f1 = Raised(debited, c)}) = 1
                      /\ \A c \in 0 .. 2, inv \in InvalidAnswers :
                            f1 = Raised(debited, c)
                               => level_up_menu(debited, inv \o <<Some(c)>>) = f1
                      /\ objects' = [objects EXCEPT
                                        ![player_id + 1].level = @ + 1,
                                        ![player_id + 1].fighter = Some(f1)]
                 ELSE objects' = objects]_vars

(* the orc was killed by the lightning bolt (xp 370) and the next          *)
(* iteration, with an unbound key, raised the player to level 2, debited   *)
(* 350 xp and raised the power                                             *)
C21_Witness ==
    /\ last.op \in IdleKeys
    /\ Obj(Game, player_id).level = 2
    /\ Unwrap(Obj(Game, player_id).fighter).xp = 20
    /\ Unwrap(Obj(Game, player_id).fighter).base_power = 3
    /\ Unwrap(Obj(Game, player_id).fighter).base_max_hp = 100

(* the ids of the entities of objs that hold an AI *)
AIHolders(objs) == {id \in 0 .. Len(objs) - 1 : IsSome(objs[id + 1].ai)}

(* the ids of the turns taken in the AI pass of the step, in order *)
ActedIds(l) == [i \in DOMAIN l.acted |-> l.acted[i].id]

Ascending(q) == \A i \in DOMAIN q, j \in DOMAIN q : i < j => q[i] < q[j]

(* C22: in every state an entity that holds an AI holds a Fighter.  A loop *)
(* iteration that handles a movement or wait key in state Playing runs the *)
(* AI pass, and no other iteration runs it.  In a pass the turns are taken *)
(* in ascending id order, one turn for each entity that held an AI when    *)
(* the pass began - the holders before the step less those the player's    *)
(* own action killed - and none by an entity without a Fighter.            *)
C22_AIPass ==
    [][/\ \A id \in AIHolders(objects) : IsSome(objects[id + 1].fighter)
       /\ \A id \in AIHolders(objects') : IsSome(objects'[id + 1].fighter)
       /\ pc = "play"
            => /\ last'.turn <=> (state = "Playing" /\ last'.op \in TurnKeys)
               /\ ~last'.turn => last'.acted = <<>>
               /\ last'.turn
                    => /\ Ascending(ActedIds(last'))
                       /\ {last'.acted[i].id : i \in DOMAIN last'.acted}
                             = {id \in AIHolders(objects) :
                                   IsSome(objects'[id + 1].fighter)}
                       /\ \A i \in DOMAIN last'.acted :
                             LET id == last'.acted[i].id
                             IN  /\ IsSome(objects[id + 1].fighter)
                                 /\ IsSome(objects'[id + 1].fighter)
                                 /\ IsSome(objects'[id + 1].ai)]_vars

(* the player killed the orc and the troll, the only entity left with an   *)
(* AI, took the one turn of the pass: the corpse of the orc did not act    *)
C22_Witness ==
    /\ last.turn
    /\ Len(last.acted) = 1
    /\ \E id \in Ids(Game) :
          /\ id < last.acted[1].id
          /\ Obj(Game, id).name = "remains of orc"
          /\ Obj(Game, id).fighter = None
    /\ Obj(Game, last.acted[1].id).name = "troll"

(* C23: in every state the saved prior AI of an AI, when there is one, is  *)
(* not a Confused variant and has no saved prior AI of its own.            *)
C23_OneLevelOfNesting ==
    \A id \in AIHolders(objects) :
        LET ai == Unwrap(objects[id + 1].ai)
        IN  IsSome(ai.old_ai)
               => /\ Unwrap(ai.old_ai).ai_type.kind # "Confused"
                  /\ Unwrap(ai.old_ai).old_ai = None

(* the AI pass of the step has a turn entered with the AI Confused(n) *)
ConfusedTurn(t, n) == t.ai.ai_type = [kind |-> "Confused", num_turns |-> n]

InReach(objs, pid, fv, d2) ==
    {id \in 0 .. Len(objs) - 1 :
        /\ id # pid
        /\ IsSome(objs[id + 1].fighter)
        /\ is_in_fov(fv, objs[id + 1].x, objs[id + 1].y)
        /\ distance2(objs[pid + 1], objs[id + 1].x, objs[id + 1].y) <= d2}

(* the step used a scroll of lightning bolt, and struck as the claim says  *)
(* with d2 the square of the range                                         *)
LightningStrikes(d2) ==
    (/\ Handles("i")
     /\ last'.index < Len(inventory)
     /\ Obj(Game, inventory[last'.index + 1]).item = Some("Lightning"))
       => LET reach == InReach(objects, player_id, fov', d2)
              dist(id) == distance2(objects[player_id + 1],
                                    objects[id + 1].x, objects[id + 1].y)
              others(hit) == \A id \in Ids(Game) \ {player_id, hit} :
                                objects'[id + 1] = objects[id + 1]
          IN  IF reach = {}
              THEN /\ last'.res = "Cancelled"
                   /\ \E g \in LevelChecked : objects' = g.objects
                   /\ inventory' = inventory
              ELSE /\ last'.res = "Used"
                   /\ \E hit \in reach :
                         /\ \A id \in reach : dist(hit) <= dist(id)
                         /\ others(hit)
                         /\ LET f == Unwrap(objects[hit + 1].fighter)
                                f1 == objects'[hit + 1].fighter
                            IN  IF f.hp > LIGHTNING_DAMAGE
                                THEN f1 = Some([f EXCEPT !.hp = @ - LIGHTNING_DAMAGE])
                                ELSE f1 = None /\ deaths' = Append(deaths, hit)

(* C25: a scroll of lightning bolt strikes an entity with a Fighter, other *)
(* than the player, in the field of view and at distance <=                *)
(* LIGHTNING_RANGE of the player, one at the least distance among those,    *)
(* for exactly LIGHTNING_DAMAGE, and no other entity; with no such entity   *)
(* the result is Cancelled and no hp changes.                               *)
C25_Lightning ==
    [][LightningStrikes(LIGHTNING_RANGE * LIGHTNING_RANGE)]_vars

(* C26: a loop iteration handling a movement key in state Playing leaves   *)
(* fov_recompute set exactly when the player's position has changed: an    *)
(* intent that ends in an attack, or that a tile or a blocking entity      *)
(* stops, leaves the flag as render_all cleared it.                        *)
C26_FovDirty ==
    [][Handles("move")
          => (fov_recompute'
                <=> pos(objects'[player_id + 1]) # pos(objects[player_id + 1]))]_vars

(* a tile that is a wall or holds a blocking entity of objs *)
Blocked(t, objs) ==
    \/ map[t].blocked
    \/ \E i \in DOMAIN objs : objs[i].blocks /\ pos(objs[i]) = t

(* C27: in a loop iteration handling a movement key in state Playing, with *)
(* dest the player's tile plus the key's offset: if an entity with a       *)
(* Fighter stands on dest, the player attacks it (the first such entity,   *)
(* before any monster acts) and stays where it is; otherwise the player    *)
(* makes no attack and ends on dest if dest is neither a wall nor held by  *)
(* a blocking entity, and stays where it is if it is.  The player never    *)
(* ends a step of play on a tile that was blocked.                         *)
C27_MoveOrAttack ==
    [][/\ Handles("move")
            => LET p == objects[player_id + 1]
                   dest == <<p.x + last'.dx, p.y + last'.dy>>
                   targets == {id \in Ids(Game) :
                                  /\ IsSome(objects[id + 1].fighter)
                                  /\ pos(objects[id + 1]) = dest}
                   p1 == objects'[player_id + 1]
                   mine == {i \in DOMAIN last'.attacks :
                               last'.attacks[i].attacker = player_id}
               IN  IF targets # {}
                   THEN /\ pos(p1) = pos(p)
                        /\ mine = {1}
                        /\ last'.attacks[1].target \in targets
                        /\ \A id \in targets : last'.attacks[1].target <= id
                   ELSE /\ mine = {}
                        /\ pos(p1) = IF Blocked(dest, objects) THEN pos(p) ELSE dest
       /\ (pc = "play" /\ pc' = "play"
           /\ pos(objects'[player_id + 1]) # pos(objects[player_id + 1]))
            => /\ Handles("move")
               /\ ~Blocked(pos(objects'[player_id + 1]), objects)]_vars

(* the player walked into the troll next to it: the troll was attacked and *)
(* still stands on the tile the key pointed at, the player has not moved   *)
C27_Witness ==
    /\ last.op = "move"
    /\ Len(last.attacks) >= 1
    /\ last.attacks[1].attacker = player_id
    /\ LET target == Obj(Game, last.attacks[1].target)
           p == Obj(Game, player_id)
       IN  /\ target.name = "troll"
           /\ pos(target) = <<p.x + last.dx, p.y + last.dy>>
           /\ pos(p) = center(SavedRooms[1])

Abs(n) == IF n < 0 THEN -n ELSE n

(* the attacks the entity id made in the step *)
AttacksBy(l, id) == {i \in DOMAIN l.attacks : l.attacks[i].attacker = id}

(* C28: for every turn of an AI pass entered with the Basic AI, with the   *)
(* field of view and the player's position of that pass: the AI is the     *)
(* same Basic AI afterwards; an entity out of view has not moved, struck   *)
(* or logged anything; an entity in view at distance >= 2 of the player    *)
(* has not struck and is at most one step away on each axis from where it  *)
(* stood, on a tile that was neither a wall nor held by a blocking entity  *)
(* if it moved; an entity in view and closer than 2 has not moved and has  *)
(* struck the player, once, exactly when the player's hp was > 0.          *)
C28_BasicAI ==
    [][pc = "play"
          => \A i \in DOMAIN last'.acted :
                LET t == last'.acted[i]
                    o1 == objects'[t.id + 1]
                    player == objects'[player_id + 1]
                    seen == is_in_fov(fov', t.at[1], t.at[2])
                    d2 == (player.x - t.at[1]) * (player.x - t.at[1])
                            + (player.y - t.at[2]) * (player.y - t.at[2])
                    struck == AttacksBy(last', t.id)
                IN  t.ai.ai_type.kind = "Basic"
                       => /\ o1.ai = Some(t.ai)
                          /\ Cardinality(struck) = t.hits
                          /\ \A a \in struck : last'.attacks[a].target = player_id
                          /\ ~seen => /\ pos(o1) = t.at
                                      /\ t.hits = 0
                                      /\ t.said = <<>>
                          /\ (seen /\ d2 >= 4)
                                => /\ t.hits = 0
                                   /\ t.said = <<>>
                                   /\ Abs(o1.x - t.at[1]) <= 1
                                   /\ Abs(o1.y - t.at[2]) <= 1
                                   /\ pos(o1) # t.at
                                        => /\ ~map[pos(o1)].blocked
                                           /\ pos(o1) \notin t.blockers
                          /\ (seen /\ d2 < 4)
                                => /\ pos(o1) = t.at
                                   /\ t.hits = IF Unwrap(t.php) > 0 THEN 1 ELSE 0]_vars

(* the troll killed the player and the orc, next to the player and in      *)
(* view, took its turn after it without striking                           *)
C28_Witness ==
    /\ state = "Death"
    /\ last.turn
    /\ \E i \in DOMAIN last.acted :
          LET t == last.acted[i]
          IN  /\ t.ai.ai_type.kind = "Basic"
              /\ Unwrap(t.php) <= 0
              /\ t.hits = 0
              /\ is_in_fov(fov, t.at[1], t.at[2])
              /\ distance2(Obj(Game, player_id), t.at[1], t.at[2]) < 4
              /\ Obj(Game, t.id).ai = Some(BasicAI(t.id))

(* C29: for every turn of an AI pass entered with the AI Confused(n),      *)
(* n > 0: the entity has made no attack and logged nothing; it stands      *)
(* where it stood or one step to the west, to the north or both (offsets   *)
(* in {-1, 0}, never +1), and if it has moved, on a tile that was neither  *)
(* a wall nor held by a blocking entity; its AI is the same AI with        *)
(* num_turns = n - 1.                                                      *)
C29_ConfusedAI ==
    [][pc = "play"
          => \A i \in DOMAIN last'.acted :
                LET t == last'.acted[i]
                    o1 == objects'[t.id + 1]
                IN  (t.ai.ai_type.kind = "Confused" /\ t.ai.ai_type.num_turns > 0)
                       => /\ t.hits = 0
                          /\ AttacksBy(last', t.id) = {}
                          /\ t.said = <<>>
                          /\ o1.x - t.at[1] \in {-1, 0}
                          /\ o1.y - t.at[2] \in {-1, 0}
                          /\ pos(o1) # t.at
                               => /\ ~map[pos(o1)].blocked
                                  /\ pos(o1) \notin t.blockers
                          /\ o1.ai = Some([t.ai EXCEPT !.ai_type.num_turns = @ - 1])]_vars

(* the player stepped aside and the confused orc stumbled west onto the    *)
(* tile the player had left; it is Confused(0) now                         *)
C29_Witness ==
    /\ last.turn
    /\ \E i \in DOMAIN last.acted :
          LET t == last.acted[i]
          IN  /\ ConfusedTurn(t, 1)
              /\ pos(Obj(Game, t.id)) = <<t.at[1] - 1, t.at[2]>>
              /\ pos(Obj(Game, t.id)) = center(SavedRooms[1])
              /\ Unwrap(Obj(Game, t.id).ai).ai_type
                    = [kind |-> "Confused", num_turns |-> 0]

(* the entity o with the equipped flag of its Equipment set to b *)
Worn(o, b) == [o EXCEPT !.equipment = Some([Unwrap(@) EXCEPT !.is_equipped = b])]

(* C30: when the inventory entry used with 'i' carries Equipment, with the *)
(* arena as the iteration's level-up check left it: the inventory is       *)
(* unchanged (the entry is still there), no UseResult is produced, no      *)
(* attack or death occurs and the map, the state and the level are         *)
(* unchanged; the entry differs only by its equipped flag, which is        *)
(* flipped; when it was equipped no other entity changes, and when it was  *)
(* not, the only other change is that the carried entity equipped in the   *)
(* same slot, if any, is dequipped.                                        *)
C30_UseEquipment ==
    [][(/\ Handles("i")
        /\ last'.index < Len(inventory)
        /\ IsSome(Obj(Game, inventory[last'.index + 1]).equipment))
          => \E g \in LevelChecked :
                LET id == inventory[last'.index + 1]
                    o == Obj(g, id)
                    holders == {j \in Ids(g) \ {id} :
                                   /\ IsEquipped(Obj(g, j))
                                   /\ SameSlot(Obj(g, j), o)
                                   /\ \E k \in DOMAIN inventory : inventory[k] = j}
                IN  /\ ~LevelUpDue(Game) => g.objects = objects
                    /\ inventory' = inventory
                    /\ last'.res = ""
                    /\ last'.attacks = <<>>
                    /\ deaths' = deaths
                    /\ map' = map
                    /\ state' = state
                    /\ dungeon_level' = dungeon_level
                    /\ Len(objects') = Len(objects)
                    /\ objects'[id + 1] = Worn(o, ~IsEquipped(o))
                    /\ \A j \in Ids(g) \ {id} :
                          objects'[j + 1] =
                             IF j \in holders /\ ~IsEquipped(o)
                             THEN Worn(Obj(g, j), FALSE)
                             ELSE Obj(g, j)
                    /\ messages'[Len(messages')] =
                          IF IsEquipped(o) THEN "Dequipped" ELSE "Equipped"]_vars

(* the dagger was used from the inventory while in hand: it is still       *)
(* carried, no longer equipped, and the player's power is the base power   *)
C30_Witness ==
    /\ last.op = "i"
    /\ last.res = ""
    /\ messages[Len(messages)] = "Dequipped"
    /\ last.index < Len(inventory)
    /\ Obj(Game, inventory[last.index + 1]).name = "dagger"
    /\ ~IsEquipped(Obj(Game, inventory[last.index + 1]))
    /\ full_power(player_id, Game) = Unwrap(Obj(Game, player_id).fighter).base_power

(* how many entries of the sequence q are v *)
Count(q, v) == Cardinality({i \in DOMAIN q : q[i] = v})

(* C31: 'd' on the inventory entry at an index, with the arena as the      *)
(* iteration's level-up check left it: the inventory is one entry shorter  *)
(* and holds the same entries but for the one at the index; the dropped    *)
(* entity is at the player's position with on_ground set and, if it has    *)
(* Equipment, with the equipped flag cleared, and is otherwise unchanged;  *)
(* no other entity changes and "You dropped" is logged last.               *)
C31_Drop ==
    [][(Handles("d") /\ last'.index < Len(inventory))
          => \E g \in LevelChecked :
                LET id == inventory[last'.index + 1]
                    o == Obj(g, id)
                    p == Obj(g, player_id)
                    placed == [o EXCEPT !.x = p.x, !.y = p.y, !.on_ground = TRUE]
                IN  /\ ~LevelUpDue(Game) => g.objects = objects
                    /\ Len(inventory') = Len(inventory) - 1
                    /\ \A e \in Ids(g) :
                          Count(inventory', e) =
                             Count(inventory, e) - (IF e = id THEN 1 ELSE 0)
                    /\ objects'[id + 1] =
                          IF IsSome(o.equipment) THEN Worn(placed, FALSE) ELSE placed
                    /\ Len(objects') = Len(objects)
                    /\ \A e \in Ids(g) \ {id} : objects'[e + 1] = Obj(g, e)
                    /\ messages'[Len(messages')] = "You dropped"]_vars

(* the dagger in hand was dropped from a full inventory: it lies at the    *)
(* player's feet, no longer equipped, and the last potion has taken its    *)
(* place at the head of the inventory                                      *)
C31_Witness ==
    /\ last.op = "d"
    /\ last.index = 0
    /\ Len(inventory) = INVENTORY_CAP - 1
    /\ inventory[1] = INVENTORY_CAP
    /\ \E id \in Ids(Game) :
          /\ Obj(Game, id).name = "dagger"
          /\ Obj(Game, id).on_ground
          /\ ~IsEquipped(Obj(Game, id))
          /\ pos(Obj(Game, id)) = pos(Obj(Game, player_id))
          /\ Count(inventory, id) = 0


(* the xp values, in the game g, of the monsters among the ids of q *)
RECURSIVE XpOf(_, _)
XpOf(g, q) ==
    IF q = <<>> THEN 0
    ELSE (IF Head(q) = g.player_id THEN 0
          ELSE Unwrap(Obj(g, Head(q)).fighter).xp) + XpOf(g, Tail(q))

(* C32: over a loop iteration on one level, the player's xp grows by       *)
(* exactly the xp values of the monsters whose death outcome fired in it,  *)
(* each counted once; the player's own death awards nothing and leaves     *)
(* state = Death. For take_damage itself: a lethal blow to a monster adds  *)
(* the monster's xp to the player's, a lethal blow to the player adds      *)
(* nothing and sets state to Death, and any other blow adds nothing.       *)
C32_DeathXp ==
    [][(pc = "play" /\ state = "Playing" /\ pc' = "play"
          /\ dungeon_level' = dungeon_level)
          => /\ \E g \in LevelChecked :
                   LET new == SubSeq(deaths', Len(deaths) + 1, Len(deaths'))
                       xp == Unwrap(Obj(g, player_id).fighter).xp
                       xp1 == Unwrap(objects'[player_id + 1].fighter).xp
                   IN  /\ ~LevelUpDue(Game) => g.objects = objects
                       /\ SubSeq(deaths', 1, Len(deaths)) = deaths
                       /\ NoDuplicates(new)
                       /\ xp1 = xp + XpOf(g, new)
                       /\ (\E k \in DOMAIN new : new[k] = player_id)
                             => state' = "Death"
             /\ \A id \in Ids(Game), amount \in {1, 4, LIGHTNING_DAMAGE} :
                   LET f == Obj(Game, id).fighter
                       g1 == take_damage(id, amount, Game)
                       xp == Unwrap(Obj(Game, player_id).fighter).xp
                       xp1 == Unwrap(Obj(g1, player_id).fighter).xp
                   IN  IsSome(f) =>
                         IF Unwrap(f).hp - amount <= 0 /\ IsSome(Unwrap(f).death)
                         THEN IF id # player_id
                              THEN xp1 = xp + Unwrap(f).xp /\ g1.state = state
                              ELSE xp1 = xp /\ g1.state = "Death"
                         ELSE xp1 = xp /\ g1.state = state]_vars

(* the veteran killed the orc and gained its xp, then the troll killed the *)
(* veteran, which gained nothing                                           *)
C32_Witness ==
    /\ Len(deaths) = 2
    /\ deaths[1] # player_id
    /\ deaths[2] = player_id
    /\ state = "Death"
    /\ Obj(Game, deaths[1]).name = "remains of orc"
    /\ Unwrap(Obj(Game, player_id).fighter).xp = 335 + 35


(* the entity o1 is the remains of the monster o, in place *)
RemainsInPlace(o, o1) ==
    o1 = [o EXCEPT !.char = "%", !.blocks = FALSE, !.fighter = None,
                   !.ai = None, !.name = RemainsOf(o.name)]

(* C33: over a loop iteration that stays on the level the arena keeps its  *)
(* length and every index keeps its entity: the Item and the slot of the   *)
(* Equipment at an index never change, the name changes only for a monster *)
(* whose death outcome fired in the iteration, and that monster is still   *)
(* at its index and on its tile as remains, without Fighter and AI, not    *)
(* blocking, named "remains of" it. monster_death itself changes nothing   *)
(* else of the arena.                                                      *)
C33_ArenaStable ==
    [][(pc = "play" /\ pc' # "gen" /\ dungeon_level' = dungeon_level)
          => /\ Len(objects') = Len(objects)
             /\ player_id' = player_id
             /\ stairs_id' = stairs_id
             /\ \A id \in Ids(Game) :
                   LET o == Obj(Game, id)
                       o1 == objects'[id + 1]
                       died == \E k \in DOMAIN deaths' :
                                  k > Len(deaths) /\ deaths'[k] = id
                   IN  /\ o1.item = o.item
                       /\ IsSome(o1.equipment) = IsSome(o.equipment)
                       /\ IsSome(o.equipment)
                             => Unwrap(o1.equipment).slot = Unwrap(o.equipment).slot
                       /\ (died /\ id # player_id)
                             => /\ o1.name = RemainsOf(o.name)
                                /\ o1.name # o.name
                                /\ o1.fighter = None /\ o1.ai = None
                                /\ ~o1.blocks /\ o1.char = "%"
                                /\ pos(o1) = pos(o)
                       /\ ~(died /\ id # player_id)
                             => /\ o1.name = o.name
                                /\ IsSome(o1.fighter) = IsSome(o.fighter)
                                /\ IsSome(o1.ai) = IsSome(o.ai)
                                /\ o1.blocks = o.blocks
                       /\ (IsSome(o.fighter) /\ id # player_id)
                             => LET g1 == monster_death(id, Game)
                                IN  /\ Len(g1.objects) = Len(objects)
                                    /\ RemainsInPlace(o, Obj(g1, id))
                                    /\ \A e \in Ids(Game) \ {id} :
                                          Obj(g1, e) = Obj(Game, e)]_vars

(* the lightning scroll was consumed and killed the orc: the remains are   *)
(* at the orc's index, and the scroll is still in the arena, neither on    *)
(* the ground nor in the inventory                                         *)
C33_Witness ==
    /\ last.op = "i"
    /\ last.res = "Used"
    /\ Len(deaths) = 1
    /\ deaths[1] # player_id
    /\ Obj(Game, deaths[1]).name = "remains of orc"
    /\ Obj(Game, deaths[1]).fighter = None
    /\ \E e \in Ids(Game) :
          /\ Obj(Game, e).item = Some("Lightning")
          /\ ~Obj(Game, e).on_ground
          /\ Count(inventory, e) = 0


(* C34: the message log never holds more than MSG_HEIGHT entries. A        *)
(* message appended to a full log evicts exactly the oldest entry and is   *)
(* last, the other entries keeping their order; appended to a log that is  *)
(* not full it evicts nothing. Over a loop iteration that logged n         *)
(* messages the log ends with these n, preceded by the newest entries of   *)
(* the old log in their order, the oldest ones evicted as far as needed.   *)
C34_MessageLog ==
    [][/\ Len(messages) <= MSG_HEIGHT
       /\ Len(messages') <= MSG_HEIGHT
       /\ \E m \in {message(Game, "probe").messages} :
             IF Len(messages) = MSG_HEIGHT
             THEN /\ Len(m) = MSG_HEIGHT
                  /\ m[MSG_HEIGHT] = "probe"
                  /\ \A i \in 1 .. MSG_HEIGHT - 1 : m[i] = messages[i + 1]
             ELSE m = Append(messages, "probe")
       /\ (pc = "play" /\ pc' # "gen" /\ last'.logged <= MSG_HEIGHT)
             => LET n == last'.logged
                    kept == Len(messages') - n
                IN  /\ Len(messages') = Min(MSG_HEIGHT, Len(messages) + n)
                    /\ SubSeq(messages', 1, kept) =
                          SubSeq(messages, Len(messages) - kept + 1, Len(messages))]_vars

(* a fight on a full log: the iteration logged two attacks and a death,    *)
(* the three oldest entries are gone and the log is still full             *)
C34_Witness ==
    /\ Len(messages) = MSG_HEIGHT
    /\ last.logged = 3
    /\ last.op = "move"
    /\ messages[MSG_HEIGHT] = "You died!"
    /\ messages[MSG_HEIGHT - 3] = "attacks for hit points"


(* C35: whenever the game loop runs, no two blocking entities stand on the *)
(* same tile and every blocking entity stands on a tile of the map that is *)
(* not blocked; in particular no monster of a generated map stands on the  *)
(* tile where the player was placed.                                       *)
C35_NoOverlap ==
    pc = "play"
       => /\ \A a \in Ids(Game), b \in Ids(Game) :
                (a # b /\ Obj(Game, a).blocks /\ Obj(Game, b).blocks)
                   => pos(Obj(Game, a)) # pos(Obj(Game, b))
          /\ \A a \in Ids(Game) :
                Obj(Game, a).blocks
                   => /\ pos(Obj(Game, a)) \in Tiles
                      /\ ~map[pos(Obj(Game, a))].blocked


(* the AI ai and every AI saved in it name the entity id *)
RECURSIVE OwnAI(_, _)
OwnAI(ai, id) ==
    /\ ai.monster_id = id
    /\ IsSome(ai.old_ai) => OwnAI(Unwrap(ai.old_ai), id)

(* C36: the monster_id of every AI, and of every AI saved inside it, is    *)
(* the arena index of the entity that holds it, on every level and through *)
(* confusion; every AI turn of the last pass was taken with the AI of the  *)
(* entity whose turn it was, the attacks of that turn were made by that    *)
(* entity, and nothing but the player and the entities that took a turn    *)
(* has attacked.                                                           *)
C36_OwnMonsterId ==
    /\ \A id \in Ids(Game) :
          IsSome(Obj(Game, id).ai) => OwnAI(Unwrap(Obj(Game, id).ai), id)
    /\ \A k \in DOMAIN last.acted :
          LET t == last.acted[k]
          IN  /\ OwnAI(t.ai, t.id)
              /\ Cardinality(AttacksBy(last, t.id)) = t.hits
    /\ \A h \in DOMAIN last.attacks :
          \/ last.attacks[h].attacker = player_id
          \/ \E k \in DOMAIN last.acted : last.acted[k].id = last.attacks[h].attacker

(* on the second level, the arena rebuilt around the player and the        *)
(* carried dagger, a monster created there has taken its turn              *)
C36_Witness ==
    /\ pc = "play"
    /\ dungeon_level = 2
    /\ Len(inventory) >= 1
    /\ \E k \in DOMAIN last.acted :
          /\ last.acted[k].id > Len(inventory)
          /\ last.acted[k].ai.monster_id = last.acted[k].id
          /\ pos(Obj(Game, last.acted[k].id)) # last.acted[k].at


(* C37: whenever the game loop runs, state is Death exactly when the       *)
(* player's hp is <= 0: the hp is > 0 in state Playing and <= 0 in state   *)
(* Death.                                                                  *)
C37_DeathIffNoHp ==
    pc = "play"
       => ((state = "Death") <=> (Unwrap(Obj(Game, player_id).fighter).hp <= 0))


(* C38: whenever the game loop runs, the ids of the inventory are pairwise *)
(* distinct, index entities of the arena that carry an Item, and none of   *)
(* these entities is on the ground.                                        *)
C38_InventorySound ==
    pc = "play"
       => /\ NoDuplicates(inventory)
          /\ \A i \in DOMAIN inventory :
                /\ inventory[i] \in Ids(Game)
                /\ IsSome(Obj(Game, inventory[i]).item)
                /\ ~Obj(Game, inventory[i]).on_ground


(* the tiles strictly inside the border of the map *)
Inside == (1 .. MAP_WIDTH - 2) \X (1 .. MAP_HEIGHT - 2)

(* the entities that move: the player and whatever holds an AI *)
Movers(g) == {id \in Ids(g) : id = g.player_id \/ IsSome(Obj(g, id).ai)}

(* C39: every unblocked tile of the map, while it is generated and after,  *)
(* lies strictly inside the border. Whenever the game loop runs, the       *)
(* player and every monster, alive or remains, stand on an unblocked tile, *)
(* every tile next to the player or to an entity with an AI, and so every  *)
(* tile move_by can pass to is_blocked, is in the grid, and in the last    *)
(* iteration the player's intent and every AI turn stayed within one step  *)
(* on each axis.                                                           *)
C39_InsideBorder ==
    /\ \A t \in Tiles : ~map[t].blocked => t \in Inside
    /\ pc = "play"
          => /\ \A id \in Ids(Game) :
                   (id = player_id \/ Obj(Game, id).blocks
                      \/ Obj(Game, id).char = "%")
                      => /\ pos(Obj(Game, id)) \in Tiles
                         /\ ~map[pos(Obj(Game, id))].blocked
             /\ \A id \in Movers(Game), dx \in -1 .. 1, dy \in -1 .. 1 :
                   <<Obj(Game, id).x + dx, Obj(Game, id).y + dy>> \in Tiles
             /\ last.dx \in -1 .. 1 /\ last.dy \in -1 .. 1
             /\ \A k \in DOMAIN last.acted :
                   LET t == last.acted[k]
                       o == Obj(Game, t.id)
                   IN  /\ Abs(o.x - t.at[1]) <= 1
                       /\ Abs(o.y - t.at[2]) <= 1
                       /\ t.at \in Inside

(* the first iteration on the first level: from the tile (1, 1) of the     *)
(* room the player walked west into the border wall and stayed, and a      *)
(* monster took its turn                                                   *)
C39_Witness ==
    /\ pc = "play"
    /\ dungeon_level = 1
    /\ turns = 1
    /\ last.op = "move"
    /\ last.dx = -1 /\ last.dy = 0
    /\ pos(Obj(Game, player_id)) = <<1, 1>>
    /\ map[<<0, 1>>].blocked
    /\ Len(last.acted) >= 1


(* C40: a loop iteration that handles a movement or wait key in state      *)
(* Playing takes the turn and runs the AI pass once: every entity that     *)
(* holds an AI after the player's action takes exactly one turn and no     *)
(* entity takes two.  This is so also when the key pointed at a wall or at *)
(* a blocking entity without a Fighter, in which case the player has       *)
(* stayed where it was, as it has after a wait key.                        *)
C40_BlockedMoveIsTurn ==
    [][(Handles("move") \/ Handles("wait"))
          => LET p == objects[player_id + 1]
                 p1 == objects'[player_id + 1]
                 dest == <<p.x + last'.dx, p.y + last'.dy>>
                 stopped == /\ last'.op = "move"
                            /\ Blocked(dest, objects)
                            /\ AttacksBy(last', player_id) = {}
             IN  /\ last'.turn
                 /\ \A id \in AIHolders(objects) :
                       IsSome(objects'[id + 1].fighter)
                          => Count(ActedIds(last'), id) = 1
                 /\ \A id \in Ids(Game) :
                       Count(ActedIds(last'), id) <= 1
                 /\ stopped => pos(p1) = pos(p)
                 /\ last'.op = "wait" => pos(p1) = pos(p)]_vars

(* in the first iteration the player walked into a wall and stayed where   *)
(* the field of view of the iteration was computed, and a monster next to  *)
(* it took its turn and struck                                             *)
C40_Witness ==
    /\ pc = "play"
    /\ turns = 1
    /\ last.op = "move"
    /\ last.turn
    /\ AttacksBy(last, player_id) = {}
    /\ LET p == Obj(Game, player_id)
       IN  /\ <<p.x + last.dx, p.y + last.dy>> \in Tiles
           /\ map[<<p.x + last.dx, p.y + last.dy>>].blocked
           /\ fov.r > 0 /\ fov.x = p.x /\ fov.y = p.y
    /\ \E k \in DOMAIN last.acted :
          /\ last.acted[k].ai.ai_type.kind = "Basic"
          /\ last.acted[k].hits = 1

=============================================================================
